---- MODULE Spec2Model ----
(***************************************************************************)
(* Model of the hands-off agent session bridge                             *)
(* (src/hands_off_agent/agent.py) and of the /handsoff/chat request        *)
(* handler (src/utils/fastapi/routes/agents.py, src/fastapi_app.py).       *)
(*                                                                         *)
(* Texts are sequences of one-character strings, so that "".join and       *)
(* "\n\n".join are computed as the code computes them.  Time is discrete:  *)
(* one Tick is one second; a threading.Timer armed with FlushDelay is due  *)
(* FlushDelay ticks after it was armed.  Threads (callers, workers, timer  *)
(* callbacks) interleave at the granularity of the statements that touch   *)
(* shared state.                                                           *)
(***************************************************************************)
EXTENDS Integers, Sequences, FiniteSets, TLC

(* ------------------------------ bounds --------------------------------- *)

\* total number of handler invocations in a run of Spec
MaxCalls == 3

\* total number of handler invocations in a run of ConcSpec
ConcCalls == 2

\* total number of messages handed to _on_agent_response_ in a run of Spec
MaxEmit == 2

\* total number of messages handed to _on_agent_response_ in a run of ConcSpec
ConcEmit == 1

\* total number of messages handed to _on_agent_response_ in a run of
\* BurstSpec
BurstEmit == 3

\* agent messages within the turn of the specification of dropped messages
DropEmit == 2

\* constructor calls in a run of SingletonSpec
MaxCtor == 4

\* messages received on the WebSocket in a run of SpeechSpec
MaxSpeechMsgs == 4

\* handoffs in a run of HandoffSpec
MaxHandoffs == 3

\* handler invocations and callback messages in a run of HandoffSpec
HandoffChats == 1

HandoffEmit == 1

\* handler invocations, callback messages and history/state requests in a
\* run of ApiSpec
ApiChats == 2

ApiEmit == 1

MaxApi == 2

\* history/state requests in a run of ImportSpec
MaxImports == 3

\* length of the transcripts whose encoding is decoded again in CodecSpec
MaxHistLen == 2

\* recognition results put on results_queue in SenderSpec
MaxResults == 2
\* events of one run stream of the Foundry agent
MaxStream == 3
\* 30-second timeouts of one generate_response
MaxKeepalive == 1

\* wrapper calls made by the concurrent threads of RaceSpec
MaxRaceCalls == 3

\* start_agent / send_message calls on MultiAgent in MultiSpec
MaxMultiCalls == 4

\* agent messages of the MultiAgent orchestration in MultiSpec
MaxMultiEmit == 1

(* -------------------------- program constants -------------------------- *)

\* threading.Timer(5, ...): the flush delay in seconds
FlushDelay == 5

\* the request threads that may be inside the /handsoff/chat handler
Callers == {1, 2}

\* the one request thread of the sequential specification
SoloCallers == {1}

\* thread objects are only created by start_agent, at most one per caller
\* that passed the 'main_session is None' checks
Threads == 1..Cardinality(Callers)

\* main_session: None | threading.Thread
None == 0

\* self.agents: the members of the orchestration, by name
Agents == <<"OrchestratorAgent", "DocumentSearchAgent", "LightAgent">>

\* the orchestration starts with the first member
StartAgent == Agents[1]

\* a table with a transfer between the two specialists added
Handoffs_SpecialistToSpecialist ==
    [a \in {Agents[i] : i \in DOMAIN Agents} |->
        IF a = "OrchestratorAgent" THEN {"DocumentSearchAgent", "LightAgent"}
        ELSE IF a = "DocumentSearchAgent"
        THEN {"OrchestratorAgent", "LightAgent"}
        ELSE {"OrchestratorAgent"}]

\* a table in which LightAgent may also transfer to itself
HandoffEdges_SelfEdge ==
    <<<<"OrchestratorAgent", "DocumentSearchAgent">>,
      <<"OrchestratorAgent", "LightAgent">>,
      <<"DocumentSearchAgent", "OrchestratorAgent">>,
      <<"LightAgent", "OrchestratorAgent">>,
      <<"LightAgent", "LightAgent">>>>

\* the (source, target) pairs given to OrchestrationHandoffs, in the order
\* of the add_many and add calls
HandoffEdges ==
    <<<<"OrchestratorAgent", "DocumentSearchAgent">>,
      <<"OrchestratorAgent", "LightAgent">>,
      <<"DocumentSearchAgent", "OrchestratorAgent">>,
      <<"LightAgent", "OrchestratorAgent">>>>

\* self.handoffs: for every source agent, the agents it may transfer to
Handoffs ==
    [a \in {Agents[i] : i \in DOMAIN Agents} |->
        {HandoffEdges[i][2] : i \in {j \in DOMAIN HandoffEdges :
                                        HandoffEdges[j][1] = a}}]

\* MultiAgent: self.agents, by name, and the pairs given to its
\* OrchestrationHandoffs
MultiAgentMembers == <<"OrchestratorAgent", "DocumentSearchAgent", "LightAgent">>

MultiAgentEdges ==
    <<<<"OrchestratorAgent", "DocumentSearchAgent">>,
      <<"OrchestratorAgent", "LightAgent">>,
      <<"DocumentSearchAgent", "OrchestratorAgent">>,
      <<"LightAgent", "OrchestratorAgent">>>>

\* the classes decorated with @singleton that the model constructs
Classes == {"HandsoffAgent", "AClass"}

\* the result-sender threads a connection can create: one per message
Senders == 1..(MaxSpeechMsgs + 1)

\* the threads that call constructors of decorated classes at the same time
CtorThreads == {1, 2}

\* the constructor arguments of the demo: AClass(value=50), AClass(value=200)
CtorArgs == {50, 200}

\* HandsoffAgent() takes no argument
NoArg == 0

\* the outcomes of AzureSpeechStreamingProcessor.initialize(): success;
\* get_speech_config fails; setup_recognizer raises before self.recognizer
\* is assigned; setup_recognizer raises after it (connecting the handlers)
InitOutcomes == {"ok", "no_config", "no_recognizer", "handlers_failed"}

\* response.content is None
NoneContent == <<"<None>">>

\* main_tasks / buffered_user_input is None
NoInput == <<"<None>">>

\* request.chat values accepted by the handler
UserMsgs == {<<"x">>, <<"y">>}

\* contents an agent message may carry: None, empty, whitespace only, text
AgentContents == {NoneContent, <<>>, <<" ">>, <<"a">>, <<"b">>}

\* the agent messages that carry text
AgentTexts == {<<"a">>, <<"b">>}

\* the separator of "\n\n".join
Sep == <<"\n", "\n">>

(* ------------------------------ helpers -------------------------------- *)

IsSpace(ch) == ch \in {" ", "\n", "\t"}

RECURSIVE LStrip(_)
LStrip(s) == IF s # <<>> /\ IsSpace(Head(s)) THEN LStrip(Tail(s)) ELSE s

RECURSIVE RStrip(_)
RStrip(s) ==
    IF s # <<>> /\ IsSpace(s[Len(s)]) THEN RStrip(SubSeq(s, 1, Len(s) - 1)) ELSE s

\* str.strip()
Strip(s) == RStrip(LStrip(s))

\* sep.join(list)
RECURSIVE JoinWith(_, _)
JoinWith(sep, list) ==
    IF list = <<>> THEN <<>>
    ELSE IF Len(list) = 1 THEN list[1]
    ELSE list[1] \o sep \o JoinWith(sep, Tail(list))

\* a guard that lets the empty and the whitespace-only content through
HasText_NoneOnly(content) == content # NoneContent

\* the guard of _on_agent_response_:
\* response.content is not None and response.content.strip() != ""
HasText(content) == content # NoneContent /\ Strip(content) # <<>>

RemoveAt(seq, i) == SubSeq(seq, 1, i - 1) \o SubSeq(seq, i + 1, Len(seq))

Min(a, b) == IF a < b THEN a ELSE b

UserMessage(m) == [role |-> "user", content |-> m]

AssistantMessage(m) == [role |-> "assistant", content |-> m]

(* ------------------- the codecs: text and bytes ------------------------ *)

\* the printable ASCII characters, in code order: Printable[i] has code
\* 31 + i ("GRAVE" is the grave accent, which a string cannot hold)
Printable ==
    <<
      " ", "!", "\"", "#", "$", "%", "&", "'", "(", ")", "*", "+",
      ",", "-", ".", "/", "0", "1", "2", "3", "4", "5", "6", "7",
      "8", "9", ":", ";", "<", "=", ">", "?", "@", "A", "B", "C",
      "D", "E", "F", "G", "H", "I", "J", "K", "L", "M", "N", "O",
      "P", "Q", "R", "S", "T", "U", "V", "W", "X", "Y", "Z", "[",
      "\\", "]", "^", "_", "GRAVE", "a", "b", "c", "d", "e", "f",
      "g",
      "h", "i", "j", "k", "l", "m", "n", "o", "p", "q", "r", "s",
      "t", "u", "v", "w", "x", "y", "z", "{", "|", "}", "~"
    >>

\* the control characters of the model: tab, line feed, carriage return, and
\* form feed standing for every other control character (JSON rejects them
\* all alike)
Controls == {"\t", "\n", "\r", "\f"}

\* str.encode() of one character (ASCII)
Code(ch) ==
    IF ch = "\t" THEN 9
    ELSE IF ch = "\n" THEN 10
    ELSE IF ch = "\f" THEN 12
    ELSE IF ch = "\r" THEN 13
    ELSE 31 + (CHOOSE i \in DOMAIN Printable : Printable[i] = ch)

\* bytes.decode() of one byte below 128 (DEL, which no byte string of the
\* model holds, is not told apart from the control characters)
Chr(b) ==
    IF b = 9 THEN "\t"
    ELSE IF b = 10 THEN "\n"
    ELSE IF b = 13 THEN "\r"
    ELSE IF b < 32 \/ b = 127 THEN "\f"
    ELSE Printable[b - 31]

\* str.encode(): the texts of the model are ASCII
StrEncode(cs) == [i \in DOMAIN cs |-> Code(cs[i])]

\* the result of a decoding step that raised
Failed == [ok |-> FALSE, chars |-> <<>>]

\* bytes.decode(): UnicodeDecodeError on a byte that is not ASCII (the byte
\* strings of the model hold no well-formed multi-byte sequence)
BytesDecode(bs) ==
    IF \E i \in DOMAIN bs : bs[i] >= 128
    THEN Failed
    ELSE [ok |-> TRUE, chars |-> [i \in DOMAIN bs |-> Chr(bs[i])]]

(* ------------------------ the codecs: base64 --------------------------- *)

\* the pieces of a sequence of sequences, concatenated in order
RECURSIVE FlattenRange(_, _, _)
FlattenRange(ss, lo, hi) ==
    IF lo > hi THEN <<>>
    ELSE IF lo = hi THEN ss[lo]
    ELSE FlattenRange(ss, lo, (lo + hi) \div 2)
         \o FlattenRange(ss, (lo + hi) \div 2 + 1, hi)

Flatten(ss) == FlattenRange(ss, 1, Len(ss))

RECURSIVE SumRange(_, _, _)
SumRange(ns, lo, hi) ==
    IF lo > hi THEN 0
    ELSE IF lo = hi THEN ns[lo]
    ELSE SumRange(ns, lo, (lo + hi) \div 2)
         + SumRange(ns, (lo + hi) \div 2 + 1, hi)

Sum(ns) == SumRange(ns, 1, Len(ns))

\* a base64 string is a sequence of positions in the base64 alphabet
\* (0..63); Pad is "=", NotB64 a character outside the alphabet
Pad == 64

NotB64 == 65

\* the result of a byte-level decoding step that raised
FailedBytes == [ok |-> FALSE, bytes |-> <<>>]

\* byte i of bs, 0 past its end
ByteAt(bs, i) == IF i <= Len(bs) THEN bs[i] ELSE 0

\* base64.b64encode(bs).decode(): every three bytes become four characters,
\* the last group is padded with "="
B64Encode(bs) ==
    [k \in 1..(4 * ((Len(bs) + 2) \div 3)) |->
        LET g == 3 * ((k - 1) \div 4)
            p == (k - 1) % 4
        IN IF p = 0 THEN bs[g + 1] \div 4
           ELSE IF p = 1
           THEN (bs[g + 1] % 4) * 16 + ByteAt(bs, g + 2) \div 16
           ELSE IF p = 2
           THEN IF g + 2 > Len(bs) THEN Pad
                ELSE (bs[g + 2] % 16) * 4 + ByteAt(bs, g + 3) \div 64
           ELSE IF g + 3 > Len(bs) THEN Pad ELSE bs[g + 3] % 64]

\* binascii.a2b_base64 (not strict), one character: a character outside the
\* alphabet is skipped, a complete pad sequence ends the input
B64Step(st, c) ==
    IF st.done THEN st
    ELSE IF c = Pad
    THEN IF st.quad_pos >= 2 /\ st.quad_pos + st.pads + 1 >= 4
         THEN [st EXCEPT !.done = TRUE, !.quad_pos = 0]
         ELSE IF st.quad_pos >= 2 THEN [st EXCEPT !.pads = @ + 1] ELSE st
    ELSE IF c > Pad THEN st
    ELSE IF st.quad_pos = 0
    THEN [st EXCEPT !.quad_pos = 1, !.leftchar = c, !.pads = 0]
    ELSE IF st.quad_pos = 1
    THEN [st EXCEPT !.quad_pos = 2, !.leftchar = c % 16, !.pads = 0,
                    !.out = Append(@, st.leftchar * 4 + c \div 16)]
    ELSE IF st.quad_pos = 2
    THEN [st EXCEPT !.quad_pos = 3, !.leftchar = c % 4, !.pads = 0,
                    !.out = Append(@, st.leftchar * 16 + c \div 4)]
    ELSE [st EXCEPT !.quad_pos = 0, !.leftchar = 0, !.pads = 0,
                    !.out = Append(@, st.leftchar * 64 + c)]

RECURSIVE B64Scan(_, _, _, _)
B64Scan(data, lo, hi, st) ==
    IF lo > hi THEN st
    ELSE IF lo = hi THEN B64Step(st, data[lo])
    ELSE LET half == B64Scan(data, lo, (lo + hi) \div 2, st) IN
         IF half.done THEN half
         ELSE B64Scan(data, (lo + hi) \div 2 + 1, hi, half)

\* base64.b64decode(data.encode()): binascii.Error when the data stops
\* inside a group of four
B64Decode(data) ==
    LET st == B64Scan(data, 1, Len(data),
                      [quad_pos |-> 0, leftchar |-> 0, pads |-> 0,
                       out |-> <<>>, done |-> FALSE])
    IN IF st.quad_pos # 0 THEN FailedBytes
       ELSE [ok |-> TRUE, bytes |-> st.out]

(* ------------------------- the codecs: zlib ---------------------------- *)

\* zlib's deflate is abstracted to a run-length code inside the zlib
\* framing (two header bytes, the Adler-32 checksum of the plain bytes at
\* the end): it is lossless, it is not the identity, and decompression
\* rejects a stream whose header, body or checksum is damaged
ZHeader == <<120, 156>>

AdlerBase == 65521

AdlerA(bs) == (1 + Sum(bs)) % AdlerBase

AdlerB(bs) ==
    (Len(bs) + Sum([i \in DOMAIN bs |-> (Len(bs) - i + 1) * bs[i]]))
        % AdlerBase

Adler32(bs) ==
    <<AdlerB(bs) \div 256, AdlerB(bs) % 256,
      AdlerA(bs) \div 256, AdlerA(bs) % 256>>

\* the last position of the run of equal bytes that starts at position i
RunEnd(bs, i) ==
    CHOOSE j \in i..Len(bs) :
        /\ \A k \in i..j : bs[k] = bs[i]
        /\ j = Len(bs) \/ bs[j + 1] # bs[i]

\* every run of equal bytes becomes its length and the byte (the byte
\* strings of the model are shorter than 256)
Deflate(bs) ==
    Flatten([i \in DOMAIN bs |->
                IF i = 1 \/ bs[i - 1] # bs[i]
                THEN <<RunEnd(bs, i) - i + 1, bs[i]>>
                ELSE <<>>])

Inflate(zs) ==
    IF Len(zs) % 2 = 1 \/ \E p \in 1..(Len(zs) \div 2) : zs[2 * p - 1] = 0
    THEN FailedBytes
    ELSE [ok |-> TRUE,
          bytes |-> Flatten([p \in 1..(Len(zs) \div 2) |->
                               [k \in 1..zs[2 * p - 1] |-> zs[2 * p]]])]

\* zlib.compress(bs)
ZCompress(bs) == ZHeader \o Deflate(bs) \o Adler32(bs)

\* zlib.decompress(zs): zlib.error on a damaged stream
ZDecompress(zs) ==
    IF Len(zs) < 6 THEN FailedBytes
    ELSE IF ~(zs[1] % 16 = 8 /\ (zs[1] * 256 + zs[2]) % 31 = 0
              /\ (zs[2] \div 32) % 2 = 0)
    THEN FailedBytes
    ELSE LET plain == Inflate(SubSeq(zs, 3, Len(zs) - 4)) IN
         IF plain.ok /\ Adler32(plain.bytes) = SubSeq(zs, Len(zs) - 3, Len(zs))
         THEN plain
         ELSE FailedBytes

(* ------------------------- the codecs: JSON ---------------------------- *)

\* Python values: str, int, list, tuple and dict (a dict's items are its
\* keys and values in insertion order: k1, v1, k2, v2, ...)
PyStr(cs) == [t |-> "str", s |-> cs, n |-> 0, items |-> <<>>]

PyInt(k) == [t |-> "int", s |-> <<>>, n |-> k, items |-> <<>>]

PyList(xs) == [t |-> "list", s |-> <<>>, n |-> 0, items |-> xs]

PyTuple(xs) == [t |-> "tuple", s |-> <<>>, n |-> 0, items |-> xs]

PyDict(kvs) == [t |-> "dict", s |-> <<>>, n |-> 0, items |-> kvs]

\* bool(v) is False: the values `not v` rejects
Falsy(v) ==
    \/ v.t = "str" /\ v.s = <<>>
    \/ v.t = "int" /\ v.n = 0
    \/ v.t \in {"list", "tuple", "dict"} /\ v.items = <<>>

Digits == <<"0", "1", "2", "3", "4", "5", "6", "7", "8", "9">>

\* str(k) for k >= 0
RECURSIVE IntChars(_)
IntChars(k) ==
    IF k < 10 THEN <<Digits[k + 1]>>
    ELSE IntChars(k \div 10) \o <<Digits[(k % 10) + 1]>>

\* json.dumps of one character of a string: the escapes of the encoder
EscapeChar_NoQuote(ch) ==
    IF ch = "\\" THEN <<"\\", "\\">>
    ELSE IF ch = "\n" THEN <<"\\", "n">>
    ELSE IF ch = "\r" THEN <<"\\", "r">>
    ELSE IF ch = "\t" THEN <<"\\", "t">>
    ELSE IF ch = "\f" THEN <<"\\", "f">>
    ELSE <<ch>>

EscapeChar(ch) ==
    IF ch = "\"" THEN <<"\\", "\"">>
    ELSE IF ch = "\\" THEN <<"\\", "\\">>
    ELSE IF ch = "\n" THEN <<"\\", "n">>
    ELSE IF ch = "\r" THEN <<"\\", "r">>
    ELSE IF ch = "\t" THEN <<"\\", "t">>
    ELSE IF ch = "\f" THEN <<"\\", "f">>
    ELSE <<ch>>

JsonEscape(cs) == Flatten([i \in DOMAIN cs |-> EscapeChar(cs[i])])

JsonString(cs) == <<"\"">> \o JsonEscape(cs) \o <<"\"">>

\* json.dumps: a dict key that is an int is written as a string, a tuple is
\* written as an array; items are separated by ", " and ": "
RECURSIVE JsonDumps(_)
RECURSIVE DumpItems(_)
RECURSIVE DumpMembers(_)

JsonDumps(v) ==
    IF v.t = "str" THEN JsonString(v.s)
    ELSE IF v.t = "int" THEN IntChars(v.n)
    ELSE IF v.t \in {"list", "tuple"}
    THEN <<"[">> \o DumpItems(v.items) \o <<"]">>
    ELSE <<"{">> \o DumpMembers(v.items) \o <<"}">>

DumpItems(xs) ==
    IF xs = <<>> THEN <<>>
    ELSE JsonDumps(xs[1])
         \o (IF Len(xs) > 1 THEN <<",", " ">> \o DumpItems(Tail(xs))
             ELSE <<>>)

DumpMembers(kvs) ==
    IF kvs = <<>> THEN <<>>
    ELSE (IF kvs[1].t = "int" THEN JsonString(IntChars(kvs[1].n))
          ELSE JsonString(kvs[1].s))
         \o <<":", " ">> \o JsonDumps(kvs[2])
         \o (IF Len(kvs) > 2
             THEN <<",", " ">> \o DumpMembers(SubSeq(kvs, 3, Len(kvs)))
             ELSE <<>>)

\* the result of a parse: the value and the position after it
NoParse == [ok |-> FALSE, val |-> PyInt(0), pos |-> 0]

Parsed(v, p) == [ok |-> TRUE, val |-> v, pos |-> p]

JsonSpace == {" ", "\t", "\n", "\r"}

RECURSIVE SkipSpace(_, _)
SkipSpace(cs, i) ==
    IF i <= Len(cs) /\ cs[i] \in JsonSpace THEN SkipSpace(cs, i + 1) ELSE i

\* the decoder's string scanner, from the character after the opening quote
RECURSIVE ParseString(_, _, _)
ParseString(cs, i, acc) ==
    IF i > Len(cs) THEN NoParse
    ELSE IF cs[i] = "\"" THEN Parsed(PyStr(acc), i + 1)
    ELSE IF cs[i] \in Controls THEN NoParse
    ELSE IF cs[i] # "\\" THEN ParseString(cs, i + 1, Append(acc, cs[i]))
    ELSE IF i = Len(cs) THEN NoParse
    ELSE IF cs[i + 1] \in {"\"", "\\", "/"}
    THEN ParseString(cs, i + 2, Append(acc, cs[i + 1]))
    ELSE IF cs[i + 1] = "n" THEN ParseString(cs, i + 2, Append(acc, "\n"))
    ELSE IF cs[i + 1] = "r" THEN ParseString(cs, i + 2, Append(acc, "\r"))
    ELSE IF cs[i + 1] = "t" THEN ParseString(cs, i + 2, Append(acc, "\t"))
    ELSE IF cs[i + 1] \in {"b", "f"}
    THEN ParseString(cs, i + 2, Append(acc, "\f"))
    ELSE NoParse

IsDigit(ch) == \E d \in DOMAIN Digits : Digits[d] = ch

DigitValue(ch) == (CHOOSE d \in DOMAIN Digits : Digits[d] = ch) - 1

RECURSIVE ParseDigits(_, _, _)
ParseDigits(cs, i, acc) ==
    IF i <= Len(cs) /\ IsDigit(cs[i])
    THEN ParseDigits(cs, i + 1, acc * 10 + DigitValue(cs[i]))
    ELSE Parsed(PyInt(acc), i)

\* dict assignment: a key that is present keeps its place and gets the value
RECURSIVE DictPut(_, _, _)
DictPut(kvs, k, v) ==
    IF kvs = <<>> THEN <<k, v>>
    ELSE IF kvs[1] = k THEN <<k, v>> \o SubSeq(kvs, 3, Len(kvs))
    ELSE <<kvs[1], kvs[2]>> \o DictPut(SubSeq(kvs, 3, Len(kvs)), k, v)

RECURSIVE ParseValue(_, _)
RECURSIVE ParseItems(_, _, _)
RECURSIVE ParseMembers(_, _, _)

\* the decoder: strings, non-negative integers, arrays (as lists) and
\* objects (as dicts)
ParseValue(cs, i) ==
    LET j == SkipSpace(cs, i) IN
    IF j > Len(cs) THEN NoParse
    ELSE IF cs[j] = "\"" THEN ParseString(cs, j + 1, <<>>)
    ELSE IF IsDigit(cs[j])
    THEN IF cs[j] = "0" /\ j < Len(cs) /\ IsDigit(cs[j + 1]) THEN NoParse
         ELSE ParseDigits(cs, j, 0)
    ELSE IF cs[j] = "["
    THEN LET k == SkipSpace(cs, j + 1) IN
         IF k <= Len(cs) /\ cs[k] = "]" THEN Parsed(PyList(<<>>), k + 1)
         ELSE ParseItems(cs, k, <<>>)
    ELSE IF cs[j] = "{"
    THEN LET k == SkipSpace(cs, j + 1) IN
         IF k <= Len(cs) /\ cs[k] = "}" THEN Parsed(PyDict(<<>>), k + 1)
         ELSE ParseMembers(cs, k, <<>>)
    ELSE NoParse

ParseItems(cs, i, acc) ==
    LET r == ParseValue(cs, i) IN
    IF ~r.ok THEN NoParse
    ELSE LET k == SkipSpace(cs, r.pos) IN
         IF k > Len(cs) THEN NoParse
         ELSE IF cs[k] = "," THEN ParseItems(cs, k + 1, Append(acc, r.val))
         ELSE IF cs[k] = "]" THEN Parsed(PyList(Append(acc, r.val)), k + 1)
         ELSE NoParse

ParseMembers(cs, i, acc) ==
    LET j == SkipSpace(cs, i) IN
    IF j > Len(cs) \/ cs[j] # "\"" THEN NoParse
    ELSE LET key == ParseString(cs, j + 1, <<>>) IN
         IF ~key.ok THEN NoParse
         ELSE LET c == SkipSpace(cs, key.pos) IN
              IF c > Len(cs) \/ cs[c] # ":" THEN NoParse
              ELSE LET r == ParseValue(cs, c + 1) IN
                   IF ~r.ok THEN NoParse
                   ELSE LET k == SkipSpace(cs, r.pos) IN
                        IF k > Len(cs) THEN NoParse
                        ELSE IF cs[k] = ","
                        THEN ParseMembers(cs, k + 1,
                                          DictPut(acc, key.val, r.val))
                        ELSE IF cs[k] = "}"
                        THEN Parsed(PyDict(DictPut(acc, key.val, r.val)),
                                    k + 1)
                        ELSE NoParse

\* json.loads(text): JSONDecodeError unless the text is one value
JsonLoads(cs) ==
    LET r == ParseValue(cs, 1) IN
    IF r.ok /\ SkipSpace(cs, r.pos) = Len(cs) + 1 THEN r ELSE NoParse

(* ------------- the codecs: src/utils/state.py, history.py -------------- *)

\* the result of decoding a routing state or a transcript that raised
NoState == [ok |-> FALSE, val |-> PyInt(0)]

NoHistory == [ok |-> FALSE, history |-> <<>>]

\* state_to_base64: base64.b64encode(json.dumps(history).encode()).decode()
state_to_base64(state) == B64Encode(StrEncode(JsonDumps(state)))

\* state_from_base64: json.loads(base64.b64decode(data.encode()).decode())
state_from_base64(data) ==
    LET raw == B64Decode(data) IN
    IF ~raw.ok THEN NoState
    ELSE LET text == BytesDecode(raw.bytes) IN
         IF ~text.ok THEN NoState
         ELSE LET r == JsonLoads(text.chars) IN
              IF r.ok THEN [ok |-> TRUE, val |-> r.val] ELSE NoState

\* state_compress:
\* base64.b64encode(zlib.compress(json.dumps(history).encode())).decode()
state_compress(state) == B64Encode(ZCompress(StrEncode(JsonDumps(state))))

\* state_decompress:
\* json.loads(zlib.decompress(base64.b64decode(data.encode())).decode())
state_decompress(data) ==
    LET raw == B64Decode(data) IN
    IF ~raw.ok THEN NoState
    ELSE LET plain == ZDecompress(raw.bytes) IN
         IF ~plain.ok THEN NoState
         ELSE LET text == BytesDecode(plain.bytes) IN
              IF ~text.ok THEN NoState
              ELSE LET r == JsonLoads(text.chars) IN
                   IF r.ok THEN [ok |-> TRUE, val |-> r.val] ELSE NoState

MessagesKey == <<"m", "e", "s", "s", "a", "g", "e", "s">>

RoleKey == <<"r", "o", "l", "e">>

ContentKey == <<"c", "o", "n", "t", "e", "n", "t">>

UserChars == <<"u", "s", "e", "r">>

AssistantChars == <<"a", "s", "s", "i", "s", "t", "a", "n", "t">>

RoleChars(role) == IF role = "user" THEN UserChars ELSE AssistantChars

\* the value of key k in a dict's items, or `default`
RECURSIVE DictGet(_, _, _)
DictGet(kvs, k, default) ==
    IF kvs = <<>> THEN default
    ELSE IF kvs[1] = k THEN kvs[2]
    ELSE DictGet(SubSeq(kvs, 3, Len(kvs)), k, default)

\* ChatHistory.serialize(): the messages, in order, each with its role and
\* its content, as JSON
MessageToPy(m) ==
    PyDict(<<PyStr(RoleKey), PyStr(RoleChars(m.role)),
             PyStr(ContentKey), PyStr(m.content)>>)

Serialize_Reversed(history) ==
    JsonDumps(PyDict(<<PyStr(MessagesKey),
                       PyList([i \in DOMAIN history |->
                          MessageToPy(history[Len(history) + 1 - i])])>>))

Serialize(history) ==
    JsonDumps(PyDict(<<PyStr(MessagesKey),
                       PyList([i \in DOMAIN history |->
                                  MessageToPy(history[i])])>>))

\* a JSON value that validates as a message
IsMessage(v) ==
    /\ v.t = "dict"
    /\ DictGet(v.items, PyStr(RoleKey), PyInt(0))
          \in {PyStr(UserChars), PyStr(AssistantChars)}
    /\ DictGet(v.items, PyStr(ContentKey), PyStr(<<>>)).t = "str"

PyToMessage(v) ==
    [role |-> IF DictGet(v.items, PyStr(RoleKey), PyInt(0)) = PyStr(UserChars)
              THEN "user" ELSE "assistant",
     content |-> DictGet(v.items, PyStr(ContentKey), PyStr(<<>>)).s]

\* ChatHistory.restore_chat_history(json_str): raises unless the text is a
\* JSON object whose messages validate
RestoreChatHistory(cs) ==
    LET r == JsonLoads(cs) IN
    IF ~r.ok \/ r.val.t # "dict" THEN NoHistory
    ELSE LET ms == DictGet(r.val.items, PyStr(MessagesKey), PyList(<<>>)) IN
         IF ms.t # "list" \/ \E i \in DOMAIN ms.items : ~IsMessage(ms.items[i])
         THEN NoHistory
         ELSE [ok |-> TRUE,
               history |-> [i \in DOMAIN ms.items |->
                               PyToMessage(ms.items[i])]]

\* chat_history_to_base64
chat_history_to_base64(history) == B64Encode(StrEncode(Serialize(history)))

\* chat_history_from_base64
chat_history_from_base64(data) ==
    LET raw == B64Decode(data) IN
    IF ~raw.ok THEN NoHistory
    ELSE LET text == BytesDecode(raw.bytes) IN
         IF ~text.ok THEN NoHistory ELSE RestoreChatHistory(text.chars)

\* chat_history_compress
chat_history_compress(history) ==
    B64Encode(ZCompress(StrEncode(Serialize(history))))

\* chat_history_decompress
chat_history_decompress(data) ==
    LET raw == B64Decode(data) IN
    IF ~raw.ok THEN NoHistory
    ELSE LET plain == ZDecompress(raw.bytes) IN
         IF ~plain.ok THEN NoHistory
         ELSE LET text == BytesDecode(plain.bytes) IN
              IF ~text.ok THEN NoHistory
              ELSE RestoreChatHistory(text.chars)

(* ------------------------------- state --------------------------------- *)

VARIABLES
    chat_history,   \* self.chat_history: sequence of [role, content]
    queue_input,    \* self.queue_input
    queue_output,   \* self.queue_output
    main_session,   \* self.main_session: None or a thread object
    output_buffer,  \* contents of the list self.output_buffer refers to
    counter,        \* self.counter
    timers,         \* pending threading.Timer objects, in arming order
    wpc,            \* per thread object: position of the worker
    wafter,         \* per worker: where chat_loop continues after a callback
    wcopy,          \* per worker: current_output_buffer of its callback
    wturn,          \* per worker: index (in inLog) of the turn it is serving
    pc,             \* per caller: position in handsoff_chat / chat
    msg,            \* per caller: request.chat
    err,            \* per caller: exception raised by chat(), if any
    resp,           \* per caller: outcome of its last handler invocation
                    \* (item: position in outLog of the reply it was given)
    calls,          \* handler invocations so far
    emits,          \* messages handed to _on_agent_response_ so far
    inLog,          \* history: every message put on queue_input, in order
    outLog,         \* history: every item put on queue_output, in order
    ticket,         \* per caller: position of its message in inLog
    turnMsgs,       \* per turn: texts handed to the debounce during it
    turnDone,       \* per turn: the orchestration asked for the next input
    sinceAppend,    \* seconds since the last append (capped at FlushDelay)
    burst,          \* texts appended in the current burst
    burstOk,        \* the current burst satisfies the timing premise
    burstPuts,      \* items put on queue_output since the burst began
    unflushed,      \* texts in output_buffer not yet part of any put
    lost,           \* a reset discarded a text that was never put
    dup,            \* a put repeated a text that was already put
    afterFault,     \* per caller: its call began after a worker had raised
    afterRestart,   \* per caller: its chat() is the first after a restart
    restartTries,   \* per caller: restart_agent() calls in this invocation
    chatCalls,      \* per caller: chat() calls made by this invocation
    restarted,      \* restart_agent() was called and no chat() began since
    attempts,       \* per worker: times it ran its current input
    active,         \* the agent the orchestration has made active
    producedBy,     \* history: the agent behind every callback message
    handoffs_done,  \* handoffs so far
    runtime_state,  \* the routing state held by self.runtime
    apc,            \* position of the client of the history/state routes
    held,           \* the value get_history() returned to that client
    heldAt,         \* history: the transcript when get_history() returned
    apiResp,        \* outcome of the last history/state request
    apiCalls,       \* history/state requests so far
    cpc,            \* codec round trip: position
    cval,           \* codec round trip: the routing state encoded
    chist,          \* codec round trip: the transcript encoded
    cblob,          \* codec round trip: the encoded string
    cout,           \* codec round trip: the result of decoding
    instances,      \* singleton: per decorated class, its `instances` dict
    spc,            \* singleton: position of the wrapper call in progress
    scall,          \* singleton: class and argument of that call
    made,           \* history: what every finished wrapper call returned
    inits,          \* history: per class, the times __init__ ran
    speech_processor, \* /speech/stream: the handler's speech_processor
    sp_in,          \* history: the last message received, and what held
                    \* when it arrived
    sp_reply,       \* the last message sent to the client
    sp_count,       \* messages received so far
    sp_configured,  \* history: a config was answered with config_success
    sp_started,     \* history: start_continuous_recognition_async calls
    sp_threads,     \* history: result-sender threads created
    sp_pushed,      \* history: audio chunks written to the recognizer
    refBuffer,      \* generation-counter debounce: its buffer
    refLog,         \* generation-counter debounce: the items it has put
    main_tasks,     \* MultiAgent.main_tasks: None or the first message
    buffered_user_input, \* MultiAgent.buffered_user_input: None or a message
    multi_history,  \* MultiAgent.chat_history
    multi_running,  \* the orchestration of MultiAgent has been invoked
    multi_in,       \* history: the last start_agent / send_message call
                    \* and whether it raised
    multi_sent,     \* history: the messages send_message accepted, in order
    multi_got,      \* history: what _wait_for_user_input returned, in order
    multi_rejected, \* history: the kinds of call that have raised
    multi_calls,    \* start_agent / send_message calls so far
    multi_emits,    \* agent messages of the MultiAgent orchestration so far
    rcall,          \* singleton, per thread: its wrapper call in progress
    results_queue,  \* /speech/stream: results_queue (results by number)
    stop_event,     \* /speech/stream: stop_event is set
    sp_alive,       \* the result-sender threads that are alive (by number
                    \* of creation)
    sp_hold,        \* per sender thread: the result it took and has not
                    \* sent yet (0: none)
    sp_sent,        \* history: the results sent to the client, in order
    sp_results,     \* history: results put on results_queue so far
    chunk_queue,    \* /foundry/chat: chunk_queue of the request
    fpc,            \* stream_chat_async: where the streaming thread is
    gpc,            \* generate_response: where the generator is
    f_events,       \* events the run stream has delivered so far
    f_produced,     \* history: the text chunks of the model, in order
    f_put,          \* history: every item put on chunk_queue, in order
    f_failed,       \* history: stream_chat_async took its except branch
    g_yield,        \* history: the payloads generate_response yielded
    g_keepalives    \* queue.Empty timeouts so far

agentVars ==
    <<chat_history, queue_input, queue_output, main_session, output_buffer,
      counter, timers, wpc, wafter, wcopy, wturn>>

callerVars == <<pc, msg, err, resp, calls>>

historyVars ==
    <<emits, inLog, outLog, ticket, turnMsgs, turnDone, sinceAppend, burst,
      burstOk, burstPuts, unflushed, lost, dup, afterFault, afterRestart,
      restartTries, chatCalls, restarted>>

routeVars == <<attempts, active, producedBy, handoffs_done>>

apiVars == <<runtime_state, apc, held, heldAt, apiResp, apiCalls>>

codecVars == <<cpc, cval, chist, cblob, cout>>

singletonVars == <<instances, spc, scall, made, inits>>

speechVars ==
    <<speech_processor, sp_in, sp_reply, sp_count, sp_configured, sp_started,
      sp_threads, sp_pushed>>

refVars == <<refBuffer, refLog>>

multiVars ==
    <<main_tasks, buffered_user_input, multi_history, multi_running,
      multi_in, multi_sent, multi_got, multi_rejected, multi_calls,
      multi_emits>>

\* the state of the components beside HandsoffAgent, its routes and codecs
senderVars ==
    <<results_queue, stop_event, sp_alive, sp_hold, sp_sent, sp_results>>

foundryVars ==
    <<chunk_queue, fpc, gpc, f_events, f_produced, f_put, f_failed, g_yield,
      g_keepalives>>

moreVars == <<multiVars, rcall, senderVars, foundryVars>>

vars ==
    <<agentVars, callerVars, historyVars, routeVars, apiVars, codecVars,
      singletonVars, speechVars, refVars, moreVars>>

NoResp == [kind |-> "none", body |-> <<>>, item |-> 0]

\* no value of get_history() is held
NoRef == [holds |-> FALSE, live |-> FALSE, frozen |-> <<>>]

\* no codec round trip is under way, nothing has been decoded
NoCodec == [stage |-> "idle", kind |-> "none", compress |-> FALSE]

NoDecoded == [ok |-> FALSE, val |-> PyInt(0), history |-> <<>>]

\* `cls not in instances`
NoInstance == [id |-> 0, value |-> 0]

\* no wrapper call is in progress
NoCall == [cls |-> "none", arg |-> 0]

\* speech_processor = None
NoProcessor ==
    [made |-> FALSE, recognizer |-> FALSE, audio_stream |-> FALSE,
     is_running |-> FALSE]

\* no message has been received on the WebSocket
NoSpeechMsg == [type |-> "none", configured |-> FALSE, running |-> FALSE]

\* the thread is not inside the wrapper
NoThreadCall == [pc |-> "idle", cls |-> "none", arg |-> 0, obj |-> NoInstance]

\* no start_agent / send_message call has been made
NoMultiCall == [op |-> "none", raised |-> FALSE]

\* no history/state request has been answered
NoApiResp == [op |-> "none", kind |-> "none", data |-> <<>>, failed |-> FALSE]

Init ==
    /\ chat_history = <<>>
    /\ queue_input = <<>>
    /\ queue_output = <<>>
    /\ main_session = None
    /\ output_buffer = <<>>
    /\ counter = 0
    /\ timers = <<>>
    /\ wpc = [t \in Threads |-> "none"]
    /\ wafter = [t \in Threads |-> "run"]
    /\ wcopy = [t \in Threads |-> <<>>]
    /\ wturn = [t \in Threads |-> 0]
    /\ pc = [c \in Callers |-> "idle"]
    /\ msg = [c \in Callers |-> <<>>]
    /\ err = [c \in Callers |-> "none"]
    /\ resp = [c \in Callers |-> NoResp]
    /\ calls = 0
    /\ emits = 0
    /\ inLog = <<>>
    /\ outLog = <<>>
    /\ ticket = [c \in Callers |-> 0]
    /\ turnMsgs = <<>>
    /\ turnDone = <<>>
    /\ sinceAppend = FlushDelay
    /\ burst = <<>>
    /\ burstOk = FALSE
    /\ burstPuts = <<>>
    /\ unflushed = 0
    /\ lost = FALSE
    /\ dup = FALSE
    /\ afterFault = [c \in Callers |-> FALSE]
    /\ afterRestart = [c \in Callers |-> FALSE]
    /\ restartTries = [c \in Callers |-> 0]
    /\ chatCalls = [c \in Callers |-> 0]
    /\ restarted = FALSE
    /\ attempts = [t \in Threads |-> 0]
    /\ active = StartAgent
    /\ producedBy = <<>>
    /\ handoffs_done = 0
    /\ runtime_state = PyDict(<<>>)
    /\ apc = "idle"
    /\ held = NoRef
    /\ heldAt = <<>>
    /\ apiResp = NoApiResp
    /\ apiCalls = 0
    /\ cpc = NoCodec
    /\ cval = PyInt(0)
    /\ chist = <<>>
    /\ cblob = <<>>
    /\ cout = NoDecoded
    /\ instances = [cls \in Classes |-> NoInstance]
    /\ spc = "idle"
    /\ scall = NoCall
    /\ made = <<>>
    /\ inits = [cls \in Classes |-> 0]
    /\ speech_processor = NoProcessor
    /\ sp_in = NoSpeechMsg
    /\ sp_reply = "none"
    /\ sp_count = 0
    /\ sp_configured = FALSE
    /\ sp_started = 0
    /\ sp_threads = 0
    /\ sp_pushed = 0
    /\ refBuffer = <<>>
    /\ refLog = <<>>
    /\ main_tasks = NoInput
    /\ buffered_user_input = NoInput
    /\ multi_history = <<>>
    /\ multi_running = FALSE
    /\ multi_in = NoMultiCall
    /\ multi_sent = <<>>
    /\ multi_got = <<>>
    /\ multi_rejected = {}
    /\ multi_calls = 0
    /\ multi_emits = 0
    /\ rcall = [t \in CtorThreads |-> NoThreadCall]
    /\ results_queue = <<>>
    /\ stop_event = FALSE
    /\ sp_alive = {}
    /\ sp_hold = [th \in Senders |-> 0]
    /\ sp_sent = <<>>
    /\ sp_results = 0
    /\ chunk_queue = <<>>
    /\ fpc = "idle"
    /\ gpc = "idle"
    /\ f_events = 0
    /\ f_produced = <<>>
    /\ f_put = <<>>
    /\ f_failed = FALSE
    /\ g_yield = <<>>
    /\ g_keepalives = 0

(* ------------------- HandsoffAgent: the debounce ----------------------- *)

\* the list object a timer captured: the live list while self.output_buffer
\* still refers to it, its (frozen) contents once return_output has rebound
\* self.output_buffer to a new list
MemoryBuffer(tm) == IF tm.live THEN output_buffer ELSE tm.mem

\* a slip in return_output: the copy is compared with itself, so that every
\* timer flushes
BufferUnchanged_SelfCompare(memory_buffer, current_buffer) ==
    JoinWith(<<>>, current_buffer) = JoinWith(<<>>, current_buffer)

\* return_output: "".join(memory_buffer) != "".join(current_buffer) -> return
BufferUnchanged(memory_buffer, current_buffer) ==
    JoinWith(<<>>, memory_buffer) = JoinWith(<<>>, current_buffer)

\* the generation counter of the counter debounce: the appends so far
Generation == Len(Flatten(turnMsgs))

\* the counter debounce's test: the live counter equals the captured one
SameGeneration(tm) == tm.gen = Generation

InDebounce(t) == wpc[t] \in {"copy", "arm"}

OthersArming(t) == \E u \in Threads \ {t} : InDebounce(u)

Idle == timers = <<>> /\ output_buffer = <<>> /\ \A u \in Threads : ~InDebounce(u)

\* _on_agent_response_(response) up to and including output_buffer.append:
\* the message is recorded in chat_history, the counter is incremented, and a
\* message with text is appended to the buffer; `after` is where the caller
\* of the callback continues
OnAgentResponse(t, content, after) ==
    /\ chat_history' = Append(chat_history, AssistantMessage(content))
    /\ counter' = counter + 1
    /\ emits' = emits + 1
    /\ wafter' = [wafter EXCEPT ![t] = after]
    /\ IF HasText(content)
       THEN /\ output_buffer' = Append(output_buffer, content)
            /\ wpc' = [wpc EXCEPT ![t] = "copy"]
            /\ turnMsgs' = [turnMsgs EXCEPT ![wturn[t]] = Append(@, content)]
            /\ refBuffer' = Append(refBuffer, content)
            /\ unflushed' = unflushed + 1
            /\ sinceAppend' = 0
            /\ IF Idle
               THEN /\ burst' = <<content>>
                    /\ burstOk' = TRUE
                    /\ burstPuts' = <<>>
               ELSE /\ burst' = Append(burst, content)
                    /\ burstOk' = (burstOk /\ sinceAppend < FlushDelay
                                   /\ ~OthersArming(t))
                    /\ UNCHANGED burstPuts
       ELSE /\ wpc' = [wpc EXCEPT ![t] = after]
            /\ UNCHANGED <<output_buffer, turnMsgs, unflushed, sinceAppend,
                           burst, burstOk, burstPuts, refBuffer>>
    /\ producedBy' = Append(producedBy, active)

\* _return_output_debounce_ after the append:
\* current_output_buffer = self.output_buffer.copy()
WorkerCopy(t) ==
    /\ wpc[t] = "copy"
    /\ wcopy' = [wcopy EXCEPT ![t] = output_buffer]
    /\ wpc' = [wpc EXCEPT ![t] = "arm"]
    /\ UNCHANGED <<chat_history, queue_input, queue_output, main_session,
                   output_buffer, counter, timers, wafter, wturn, callerVars,
                   historyVars>>
    /\ UNCHANGED <<routeVars, apiVars, codecVars, singletonVars, speechVars, refVars, moreVars>>

\* _return_output_debounce_: start a timer holding the list object that
\* self.output_buffer refers to now, and the copy
WorkerArm(t) ==
    /\ wpc[t] = "arm"
    /\ timers' = Append(timers, [live |-> TRUE, mem |-> <<>>,
                                 cur |-> wcopy[t], left |-> FlushDelay,
                                 pc |-> "armed", gen |-> Generation,
                                 ref |-> FALSE])
    /\ wcopy' = [wcopy EXCEPT ![t] = <<>>]
    /\ wpc' = [wpc EXCEPT ![t] = wafter[t]]
    /\ UNCHANGED <<chat_history, queue_input, queue_output, main_session,
                   output_buffer, counter, wafter, wturn, callerVars,
                   historyVars>>
    /\ UNCHANGED <<routeVars, apiVars, codecVars, singletonVars, speechVars, refVars, moreVars>>

\* the timer thread runs return_output: the comparison
TimerExpire(i) ==
    /\ i \in DOMAIN timers
    /\ timers[i].pc = "armed"
    /\ timers[i].left = 0
    /\ IF BufferUnchanged(MemoryBuffer(timers[i]), timers[i].cur)
       THEN /\ timers' = [timers EXCEPT ![i].pc = "put",
                                        ![i].ref = SameGeneration(timers[i])]
            /\ UNCHANGED refVars
       ELSE /\ timers' = RemoveAt(timers, i)
            /\ IF SameGeneration(timers[i])
               THEN /\ refLog' = Append(refLog, JoinWith(Sep, refBuffer))
                    /\ refBuffer' = <<>>
               ELSE UNCHANGED refVars
    /\ UNCHANGED <<chat_history, queue_input, queue_output, main_session,
                   output_buffer, counter, wpc, wafter, wcopy, wturn, callerVars,
                   historyVars>>
    /\ UNCHANGED <<routeVars, apiVars, codecVars, singletonVars, speechVars, moreVars>>

\* return_output: self.queue_output.put("\n\n".join(self.output_buffer))
TimerPut(i) ==
    /\ i \in DOMAIN timers
    /\ timers[i].pc = "put"
    /\ LET item == JoinWith(Sep, output_buffer) IN
         /\ queue_output' = Append(queue_output, item)
         /\ outLog' = Append(outLog, item)
         /\ burstPuts' = Append(burstPuts, item)
    /\ dup' = (dup \/ Len(output_buffer) > unflushed)
    /\ unflushed' = 0
    /\ timers' = [timers EXCEPT ![i].pc = "reset"]
    /\ UNCHANGED <<chat_history, queue_input, main_session, output_buffer,
                   counter, wpc, wafter, wcopy, wturn, callerVars, emits, inLog,
                   ticket, turnMsgs, turnDone, sinceAppend, burst, burstOk,
                   lost, afterFault, afterRestart, restartTries, chatCalls,
                   restarted>>
    /\ UNCHANGED <<routeVars, apiVars, codecVars, singletonVars, speechVars,
                   refBuffer, moreVars>>
    /\ refLog' = IF timers[i].ref THEN Append(refLog, JoinWith(Sep, refBuffer))
                 ELSE refLog

\* return_output: self.output_buffer = []  (the old list stays with the
\* timers that captured it)
TimerReset(i) ==
    /\ i \in DOMAIN timers
    /\ timers[i].pc = "reset"
    /\ LET detached == [j \in DOMAIN timers |->
                          IF timers[j].live
                          THEN [timers[j] EXCEPT !.live = FALSE,
                                                 !.mem = output_buffer]
                          ELSE timers[j]]
       IN timers' = RemoveAt(detached, i)
    /\ output_buffer' = <<>>
    /\ lost' = (lost \/ unflushed > 0)
    /\ unflushed' = 0
    /\ UNCHANGED <<chat_history, queue_input, queue_output, main_session,
                   counter, wpc, wafter, wcopy, wturn, callerVars, emits, inLog,
                   outLog, ticket, turnMsgs, turnDone, sinceAppend, burst,
                   burstOk, burstPuts, dup, afterFault, afterRestart,
                   restartTries, chatCalls, restarted>>
    /\ UNCHANGED <<routeVars, apiVars, codecVars, singletonVars, speechVars,
                   refLog, moreVars>>
    /\ refBuffer' = IF timers[i].ref THEN <<>> ELSE refBuffer

\* one second passes; timer callbacks that are due, and a callback between
\* its append and its Timer.start, run before the next second
Tick ==
    /\ \A i \in DOMAIN timers : timers[i].pc = "armed" /\ timers[i].left > 0
    /\ \A t \in Threads : ~InDebounce(t)
    /\ timers # <<>> \/ sinceAppend < FlushDelay
    /\ timers' = [i \in DOMAIN timers |->
                    [timers[i] EXCEPT !.left = @ - 1]]
    /\ sinceAppend' = Min(sinceAppend + 1, FlushDelay)
    /\ UNCHANGED <<chat_history, queue_input, queue_output, main_session,
                   output_buffer, counter, wpc, wafter, wcopy, wturn, callerVars,
                   emits, inLog, outLog, ticket, turnMsgs, turnDone, burst,
                   burstOk, burstPuts, unflushed, lost, dup, afterFault,
                   afterRestart, restartTries, chatCalls, restarted>>
    /\ UNCHANGED <<routeVars, apiVars, codecVars, singletonVars, speechVars, refVars, moreVars>>

(* ------------------- HandsoffAgent: the worker ------------------------- *)

\* the turn that begins when a worker takes the head of queue_input
NextTurn == Len(inLog) - Len(queue_input) + 1

TakeInput(t) ==
    /\ queue_input # <<>>
    /\ queue_input' = Tail(queue_input)
    /\ wturn' = [wturn EXCEPT ![t] = NextTurn]
    /\ turnMsgs' = Append(turnMsgs, <<>>)
    /\ turnDone' = Append(turnDone, FALSE)
    /\ wpc' = [wpc EXCEPT ![t] = "run"]
    /\ UNCHANGED <<chat_history, queue_output, main_session, output_buffer,
                   counter, timers, wafter, wcopy, callerVars, emits, inLog, outLog,
                   ticket, sinceAppend, burst, burstOk, burstPuts, unflushed,
                   lost, dup, afterFault, afterRestart, restartTries,
                   chatCalls, restarted>>
    /\ attempts' = [attempts EXCEPT ![t] = 1]
    /\ UNCHANGED <<producedBy, handoffs_done, apiVars, codecVars, singletonVars, speechVars, refVars, moreVars>>

\* chat_loop: initial_message = queue_input.get(); orchestrator.invoke(...):
\* the orchestration starts with the first of its members
WorkerLoopGet(t) ==
    /\ wpc[t] = "loop_get"
    /\ TakeInput(t)
    /\ active' = StartAgent

\* the orchestration calls agent_response_callback with an agent's message
WorkerEmit(t, content) ==
    /\ wpc[t] = "run"
    /\ OnAgentResponse(t, content, "run")
    /\ UNCHANGED <<queue_input, queue_output, main_session, timers, wcopy, wturn,
                   callerVars, inLog, outLog, ticket, turnDone, lost, dup,
                   afterFault, afterRestart, restartTries, chatCalls,
                   restarted>>
    /\ UNCHANGED <<attempts, active, handoffs_done, apiVars, codecVars,
                   singletonVars, speechVars, refLog, moreVars>>

\* the orchestration needs the next human turn: it calls __user_input__,
\* which blocks in queue_input.get()
WorkerAwaitInput(t) ==
    /\ wpc[t] = "run"
    /\ wpc' = [wpc EXCEPT ![t] = "input_get"]
    /\ turnDone' = [turnDone EXCEPT ![wturn[t]] = TRUE]
    /\ UNCHANGED <<chat_history, queue_input, queue_output, main_session,
                   output_buffer, counter, timers, wafter, wcopy, wturn, callerVars,
                   emits, inLog, outLog, ticket, turnMsgs, sinceAppend, burst,
                   burstOk, burstPuts, unflushed, lost, dup, afterFault,
                   afterRestart, restartTries, chatCalls, restarted>>
    /\ UNCHANGED <<routeVars, apiVars, codecVars, singletonVars, speechVars, refVars, moreVars>>

\* __user_input__: user_input = self.queue_input.get()
WorkerUserInput(t) ==
    /\ wpc[t] = "input_get"
    /\ TakeInput(t)
    /\ UNCHANGED active

\* chat_loop: the orchestration run completes with `content` as (the last
\* element of) its result; the result is handed to the callback; a list
\* result makes chat_loop return, anything else loops
WorkerComplete(t, content, isList) ==
    /\ wpc[t] = "run"
    /\ OnAgentResponse(t, content, IF isList THEN "returned" ELSE "loop_get")
    /\ turnDone' = [turnDone EXCEPT ![wturn[t]] = TRUE]
    /\ UNCHANGED <<queue_input, queue_output, main_session, timers, wcopy, wturn,
                   callerVars, inLog, outLog, ticket, lost, dup, afterFault,
                   afterRestart, restartTries, chatCalls, restarted>>
    /\ UNCHANGED <<attempts, active, handoffs_done, apiVars, codecVars,
                   singletonVars, speechVars, refLog, moreVars>>

\* orchestrator.invoke / orchestration_result.get raises: the exception
\* leaves chat_loop and __loop_executor__, the thread ends
WorkerRaise(t) ==
    /\ wpc[t] = "run"
    /\ wpc' = [wpc EXCEPT ![t] = "raised"]
    /\ turnDone' = [turnDone EXCEPT ![wturn[t]] = TRUE]
    /\ UNCHANGED <<chat_history, queue_input, queue_output, main_session,
                   output_buffer, counter, timers, wafter, wcopy, wturn, callerVars,
                   emits, inLog, outLog, ticket, turnMsgs, sinceAppend, burst,
                   burstOk, burstPuts, unflushed, lost, dup, afterFault,
                   afterRestart, restartTries, chatCalls, restarted>>
    /\ UNCHANGED <<routeVars, apiVars, codecVars, singletonVars, speechVars, refVars, moreVars>>

Live(t) == wpc[t] \in {"loop_get", "run", "copy", "arm", "input_get"} /\
           ~(InDebounce(t) /\ wafter[t] = "returned")

Started(t) == wpc[t] \notin {"none", "created"}

Faulted == \E t \in Threads : wpc[t] = "raised"

(* ------------------- the /handsoff/chat handler ------------------------ *)

\* "pydantic_core._pydantic_core.ValidationError" in str(e)
\*     or "ValidationError" in str(e)
MentionsValidationError(e) == e = "ValidationError"

\* handsoff_chat up to the call of chat(): an empty request.chat is answered
\* with status 400
HandlerStart(c, m) ==
    /\ pc[c] = "idle"
    /\ calls' = calls + 1
    /\ msg' = [msg EXCEPT ![c] = m]
    /\ err' = [err EXCEPT ![c] = "none"]
    /\ ticket' = [ticket EXCEPT ![c] = 0]
    /\ restartTries' = [restartTries EXCEPT ![c] = 0]
    /\ afterFault' = [afterFault EXCEPT ![c] = Faulted]
    /\ afterRestart' = [afterRestart EXCEPT ![c] = restarted /\ m # <<>>]
    /\ restarted' = (restarted /\ m = <<>>)
    /\ IF m = <<>>
       THEN /\ resp' = [resp EXCEPT ![c] = [kind |-> "http400", body |-> <<>>, item |-> 0]]
            /\ chatCalls' = [chatCalls EXCEPT ![c] = 0]
            /\ UNCHANGED pc
       ELSE /\ resp' = [resp EXCEPT ![c] = NoResp]
            /\ chatCalls' = [chatCalls EXCEPT ![c] = 1]
            /\ pc' = [pc EXCEPT ![c] = "chat_add"]
    /\ UNCHANGED <<agentVars, emits, inLog, outLog, turnMsgs, turnDone,
                   sinceAppend, burst, burstOk, burstPuts, unflushed, lost,
                   dup>>
    /\ UNCHANGED <<routeVars, apiVars, codecVars, singletonVars, speechVars, refVars, moreVars>>

\* chat: self.chat_history.add_message(ChatMessageContent(USER, message))
ChatAdd(c) ==
    /\ pc[c] = "chat_add"
    /\ chat_history' = Append(chat_history, UserMessage(msg[c]))
    /\ pc' = [pc EXCEPT ![c] = "chat_put"]
    /\ UNCHANGED <<queue_input, queue_output, main_session, output_buffer,
                   counter, timers, wpc, wafter, wcopy, wturn, msg, err, resp, calls,
                   historyVars>>
    /\ UNCHANGED <<routeVars, apiVars, codecVars, singletonVars, speechVars, refVars, moreVars>>

\* chat: building the pydantic ChatMessageContent fails validation (the
\* error the handler's restart branch is written for)
ChatInvalid(c) ==
    /\ pc[c] = "chat_add"
    /\ err' = [err EXCEPT ![c] = "ValidationError"]
    /\ pc' = [pc EXCEPT ![c] = "except"]
    /\ UNCHANGED <<agentVars, msg, resp, calls, historyVars>>
    /\ UNCHANGED <<routeVars, apiVars, codecVars, singletonVars, speechVars, refVars, moreVars>>

\* chat: self.queue_input.put(message)
ChatPut(c) ==
    /\ pc[c] = "chat_put"
    /\ queue_input' = Append(queue_input, msg[c])
    /\ inLog' = Append(inLog, msg[c])
    /\ ticket' = [ticket EXCEPT ![c] = Len(inLog) + 1]
    /\ pc' = [pc EXCEPT ![c] = "chat_check"]
    /\ UNCHANGED <<chat_history, queue_output, main_session, output_buffer,
                   counter, timers, wpc, wafter, wcopy, wturn, msg, err, resp, calls,
                   emits, outLog, turnMsgs, turnDone, sinceAppend, burst,
                   burstOk, burstPuts, unflushed, lost, dup, afterFault,
                   afterRestart, restartTries, chatCalls, restarted>>
    /\ UNCHANGED <<routeVars, apiVars, codecVars, singletonVars, speechVars, refVars, moreVars>>

\* chat: if self.main_session is None: self.start_agent()
ChatCheck(c) ==
    /\ pc[c] = "chat_check"
    /\ pc' = [pc EXCEPT ![c] =
                IF main_session = None THEN "start_check" ELSE "chat_get"]
    /\ UNCHANGED <<agentVars, msg, err, resp, calls, historyVars>>
    /\ UNCHANGED <<routeVars, apiVars, codecVars, singletonVars, speechVars, refVars, moreVars>>

\* start_agent: if self.main_session is not None: raise Exception(...)
StartCheck(c) ==
    /\ pc[c] = "start_check"
    /\ IF main_session # None
       THEN /\ err' = [err EXCEPT ![c] = "Multi-agent is already running."]
            /\ pc' = [pc EXCEPT ![c] = "except"]
       ELSE /\ pc' = [pc EXCEPT ![c] = "start_assign"]
            /\ UNCHANGED err
    /\ UNCHANGED <<agentVars, msg, resp, calls, historyVars>>
    /\ UNCHANGED <<routeVars, apiVars, codecVars, singletonVars, speechVars, refVars, moreVars>>

\* start_agent: self.main_session = threading.Thread(target=...)
StartAssign(c) ==
    /\ pc[c] = "start_assign"
    /\ LET t == CHOOSE u \in Threads :
                    wpc[u] = "none" /\ \A v \in Threads : v < u => wpc[v] # "none"
       IN /\ wpc' = [wpc EXCEPT ![t] = "created"]
          /\ main_session' = t
    /\ pc' = [pc EXCEPT ![c] = "start_start"]
    /\ UNCHANGED <<chat_history, queue_input, queue_output, output_buffer,
                   counter, timers, wafter, wcopy, wturn, msg, err, resp, calls,
                   historyVars>>
    /\ UNCHANGED <<routeVars, apiVars, codecVars, singletonVars, speechVars, refVars, moreVars>>

\* start_agent: self.main_session.start(); starting a thread object a second
\* time raises RuntimeError
StartStart(c) ==
    /\ pc[c] = "start_start"
    /\ IF wpc[main_session] = "created"
       THEN /\ wpc' = [wpc EXCEPT ![main_session] = "loop_get"]
            /\ pc' = [pc EXCEPT ![c] = "chat_get"]
            /\ UNCHANGED err
       ELSE /\ err' = [err EXCEPT ![c] = "threads can only be started once"]
            /\ pc' = [pc EXCEPT ![c] = "except"]
            /\ UNCHANGED wpc
    /\ UNCHANGED <<chat_history, queue_input, queue_output, main_session,
                   output_buffer, counter, timers, wafter, wcopy, wturn, msg, resp,
                   calls, historyVars>>
    /\ UNCHANGED <<routeVars, apiVars, codecVars, singletonVars, speechVars, refVars, moreVars>>

\* chat: output = str(self.queue_output.get()); the handler returns it
ChatGet(c) ==
    /\ pc[c] = "chat_get"
    /\ queue_output # <<>>
    /\ resp' = [resp EXCEPT ![c] =
                  [kind |-> "ok", body |-> Head(queue_output),
                   item |-> Len(outLog) - Len(queue_output) + 1]]
    /\ queue_output' = Tail(queue_output)
    /\ pc' = [pc EXCEPT ![c] = "idle"]
    /\ UNCHANGED <<chat_history, queue_input, main_session, output_buffer,
                   counter, timers, wpc, wafter, wcopy, wturn, msg, err, calls,
                   historyVars>>
    /\ UNCHANGED <<routeVars, apiVars, codecVars, singletonVars, speechVars, refVars, moreVars>>

\* handsoff_chat, except Exception as e: an error that mentions
\* ValidationError leads to hands_off_agent.restart_agent(), which
\* HandsoffAgent does not define (AttributeError, caught by the inner except,
\* answered with the "couldn't recover" response); any other error is
\* answered with status 500
HandlerExcept(c) ==
    /\ pc[c] = "except"
    /\ IF MentionsValidationError(err[c])
       THEN /\ restartTries' = [restartTries EXCEPT ![c] = @ + 1]
            /\ restarted' = TRUE
            /\ resp' = [resp EXCEPT ![c] =
                          [kind |-> "not_recovered", body |-> <<>>,
                           item |-> 0]]
       ELSE /\ resp' = [resp EXCEPT ![c] = [kind |-> "http500", body |-> <<>>, item |-> 0]]
            /\ UNCHANGED <<restartTries, restarted>>
    /\ pc' = [pc EXCEPT ![c] = "idle"]
    /\ UNCHANGED <<agentVars, msg, err, calls, emits, inLog, outLog, ticket,
                   turnMsgs, turnDone, sinceAppend, burst, burstOk, burstPuts,
                   unflushed, lost, dup, afterFault, afterRestart, chatCalls>>
    /\ UNCHANGED <<routeVars, apiVars, codecVars, singletonVars, speechVars, refVars, moreVars>>

(* ----------------- inputs of the codecs and the routes ----------------- *)

\* string contents: empty, plain, and with the characters JSON escapes
CodecTexts == {<<>>, <<"a">>, <<"\"", "b">>, <<"\\", "n">>, <<"\n", " ">>}

\* Python values that json.dumps accepts
StateLeaves ==
    {PyStr(cs) : cs \in CodecTexts} \cup {PyInt(0), PyInt(12)}

StateValues ==
    StateLeaves
    \cup {PyList(<<>>), PyDict(<<>>)}
    \cup {PyList(<<x, PyStr(<<"a">>)>>) : x \in StateLeaves}
    \cup {PyTuple(<<x>>) : x \in StateLeaves}
    \cup {PyDict(<<PyStr(<<"n">>), x>>) : x \in StateLeaves}

StateKeys == {PyStr(<<"k">>), PyStr(<<"\"">>), PyInt(1)}

\* the routing states that are exported and imported again: dicts
RoundTripStates ==
    {PyDict(<<>>)}
    \cup {PyDict(<<k, v>>) : k \in StateKeys, v \in StateValues}
    \cup {PyDict(<<PyStr(<<"k">>), PyInt(1), k, v>>) :
             k \in StateKeys \ {PyStr(<<"k">>)}, v \in StateLeaves}

RoundTripMessages ==
    {[role |-> r, content |-> c] :
        r \in {"user", "assistant"},
        c \in {<<>>, <<"x">>, <<"a", "\"">>, <<"\\", "\n">>}}

\* the transcripts that are exported and imported again
RoundTripHistories ==
    UNION {[1..n -> RoundTripMessages] : n \in 0..MaxHistLen}

\* the transcript and the routing state of the import requests
ImportedHistory == <<UserMessage(<<"y">>), AssistantMessage(<<"b">>)>>

ImportedState == PyDict(<<PyStr(<<"k">>), PyInt(1)>>)

\* an encoded string cut short by one character
Truncated(data) == SubSeq(data, 1, Len(data) - 1)

\* an encoded string whose first character was replaced
Damaged(data) == [data EXCEPT ![1] = 0]

\* request.data of the history import requests: nothing, the exports of a
\* transcript, corrupted exports, and the export of the empty transcript
HistoryImports ==
    {<<>>,
     chat_history_to_base64(ImportedHistory),
     chat_history_compress(ImportedHistory),
     Truncated(chat_history_to_base64(ImportedHistory)),
     Damaged(chat_history_to_base64(ImportedHistory)),
     Damaged(chat_history_compress(ImportedHistory)),
     chat_history_to_base64(<<>>)}

\* request.data of the import requests made while chat() calls go on
RunningHistoryImports == {chat_history_to_base64(ImportedHistory)}

RunningStateImports == {state_to_base64(ImportedState)}

\* request.data of the state import requests
StateImports ==
    {<<>>,
     state_to_base64(ImportedState),
     state_compress(ImportedState),
     Truncated(state_compress(ImportedState)),
     Damaged(state_to_base64(ImportedState)),
     Damaged(state_compress(ImportedState)),
     state_to_base64(PyDict(<<>>))}

(* ------------------- the orchestration: handoffs ----------------------- *)

\* the active agent calls one of its transfer functions: HandoffOrchestration
\* gives every agent the transfers that self.handoffs lists for it
Handoff(t, target) ==
    /\ wpc[t] = "run"
    /\ target \in Handoffs[active]
    /\ active' = target
    /\ handoffs_done' = handoffs_done + 1
    /\ UNCHANGED <<agentVars, callerVars, historyVars, attempts, producedBy,
                   apiVars, codecVars, singletonVars, speechVars, refVars, moreVars>>

(* ------------- HandsoffAgent: transcript and routing state ------------- *)

\* the transcript a value returned by get_history() shows now: the
\* ChatHistory object itself while self.chat_history still refers to it
HeldValue == IF held.live THEN chat_history ELSE held.frozen

\* get_history: return self.chat_history
GetHistory == [holds |-> TRUE, live |-> TRUE, frozen |-> <<>>]

\* set_history: self.chat_history = history (a value of get_history() held
\* by a client keeps the object that was replaced)
SetHistory(history) ==
    /\ chat_history' = history
    /\ held' = IF held.holds /\ held.live
               THEN [held EXCEPT !.live = FALSE, !.frozen = chat_history]
               ELSE held

\* set_state: self.runtime.load_state(state); the effect of the library
\* call, which is not awaited here, is either to install the state or none
SetState(state, installed) ==
    runtime_state' = IF installed THEN state ELSE runtime_state

(* ------------- the /handsoff/history and /handsoff/state routes -------- *)

\* the handler of a route, by what it does and its variant
RouteOp(op, compress) ==
    IF ~compress THEN op
    ELSE IF op = "history_export" THEN "history_export_compress"
    ELSE IF op = "history_import" THEN "history_import_compress"
    ELSE IF op = "state_export" THEN "state_export_compress"
    ELSE "state_import_compress"

ApiResp(op, kind, data, failed) ==
    [op |-> op, kind |-> kind, data |-> data, failed |-> failed]

\* handsoff_history_export[_compress]: history = hands_off_agent.get_history()
HistoryExportGet ==
    /\ apc = "idle"
    /\ apc' = "export"
    /\ held' = GetHistory
    /\ heldAt' = chat_history
    /\ apiCalls' = apiCalls + 1
    /\ UNCHANGED <<agentVars, callerVars, historyVars, routeVars,
                   runtime_state, apiResp, codecVars, singletonVars, speechVars, refVars, moreVars>>

\* handsoff_history_export[_compress]: the value is encoded and returned
HistoryExportEncode(compress) ==
    /\ apc = "export"
    /\ apc' = "idle"
    /\ apiResp' = ApiResp(RouteOp("history_export", compress), "ok",
                          IF compress THEN chat_history_compress(HeldValue)
                          ELSE chat_history_to_base64(HeldValue), FALSE)
    /\ held' = NoRef
    /\ heldAt' = <<>>
    /\ UNCHANGED <<agentVars, callerVars, historyVars, routeVars,
                   runtime_state, apiCalls, codecVars, singletonVars, speechVars, refVars, moreVars>>

\* an import handler that installs whatever the decoder returned
HistoryImport_Unchecked(data, compress) ==
    LET r == IF compress THEN chat_history_decompress(data)
             ELSE chat_history_from_base64(data)
    IN /\ apc = "idle"
       /\ apiCalls' = apiCalls + 1
       /\ apiResp' = ApiResp(RouteOp("history_import", compress), "ok",
                             data, ~r.ok)
       /\ SetHistory(r.history)
       /\ UNCHANGED <<queue_input, queue_output, main_session,
                      output_buffer, counter, timers, wpc, wafter, wcopy,
                      wturn, callerVars, historyVars, routeVars,
                      runtime_state, apc, heldAt, codecVars, singletonVars, speechVars, refVars, moreVars>>

\* handsoff_history_import / handsoff_history_import_decompress: empty data
\* is answered with status 400; a decoder that raises ends the request
\* (status 500) before set_history; an empty transcript is answered with
\* status 400; otherwise set_history
HistoryImport(data, compress) ==
    LET r == IF compress THEN chat_history_decompress(data)
             ELSE chat_history_from_base64(data)
    IN /\ apc = "idle"
       /\ apiCalls' = apiCalls + 1
       /\ IF data = <<>>
          THEN /\ apiResp' = ApiResp(RouteOp("history_import", compress),
                                     "http400", data, FALSE)
               /\ UNCHANGED <<chat_history, held>>
          ELSE IF ~r.ok
          THEN /\ apiResp' = ApiResp(RouteOp("history_import", compress),
                                     "http500", data, TRUE)
               /\ UNCHANGED <<chat_history, held>>
          ELSE IF r.history = <<>>
          THEN /\ apiResp' = ApiResp(RouteOp("history_import", compress),
                                     "http400", data, FALSE)
               /\ UNCHANGED <<chat_history, held>>
          ELSE /\ apiResp' = ApiResp(RouteOp("history_import", compress),
                                     "ok", data, FALSE)
               /\ SetHistory(r.history)
       /\ UNCHANGED <<queue_input, queue_output, main_session,
                      output_buffer, counter, timers, wpc, wafter, wcopy,
                      wturn, callerVars, historyVars, routeVars,
                      runtime_state, apc, heldAt, codecVars, singletonVars, speechVars, refVars, moreVars>>

\* get_state: return await self.runtime.save_state()
GetState == runtime_state

\* handsoff_state_export: state = await hands_off_agent.get_state()
StateExport ==
    /\ apc = "idle"
    /\ apiCalls' = apiCalls + 1
    /\ apiResp' = ApiResp("state_export", "ok", state_to_base64(GetState),
                          FALSE)
    /\ UNCHANGED <<agentVars, callerVars, historyVars, routeVars,
                   runtime_state, apc, held, heldAt, codecVars, singletonVars, speechVars, refVars, moreVars>>

\* handsoff_state_export_compress: get_state() is not awaited, json.loads
\* is given the coroutine and raises TypeError (status 500)
StateExportCompress ==
    /\ apc = "idle"
    /\ apiCalls' = apiCalls + 1
    /\ apiResp' = ApiResp("state_export_compress", "http500", <<>>, FALSE)
    /\ UNCHANGED <<agentVars, callerVars, historyVars, routeVars,
                   runtime_state, apc, held, heldAt, codecVars, singletonVars, speechVars, refVars, moreVars>>

\* handsoff_state_import / handsoff_state_import_compress: as the history
\* handlers, with `not state` for the emptiness test; the compressed variant
\* hands set_state the state as a JSON string
StateImport(data, compress, installed) ==
    LET r == IF compress THEN state_decompress(data)
             ELSE state_from_base64(data)
    IN /\ apc = "idle"
       /\ apiCalls' = apiCalls + 1
       /\ IF data = <<>>
          THEN /\ apiResp' = ApiResp(RouteOp("state_import", compress),
                                     "http400", data, FALSE)
               /\ UNCHANGED runtime_state
          ELSE IF ~r.ok
          THEN /\ apiResp' = ApiResp(RouteOp("state_import", compress),
                                     "http500", data, TRUE)
               /\ UNCHANGED runtime_state
          ELSE IF Falsy(r.val)
          THEN /\ apiResp' = ApiResp(RouteOp("state_import", compress),
                                     "http400", data, FALSE)
               /\ UNCHANGED runtime_state
          ELSE /\ apiResp' = ApiResp(RouteOp("state_import", compress),
                                     "ok", data, FALSE)
               /\ SetState(IF compress THEN PyStr(JsonDumps(r.val))
                           ELSE r.val, installed)
       /\ UNCHANGED <<agentVars, callerVars, historyVars, routeVars, apc,
                      held, heldAt, codecVars, singletonVars, speechVars, refVars, moreVars>>

\* the data of the export the client has just received, if the last request
\* was a successful export of the given kind
LastExport(op) ==
    IF apiResp.kind = "ok"
       /\ apiResp.op \in {RouteOp(op, FALSE), RouteOp(op, TRUE)}
    THEN {apiResp.data}
    ELSE {}

(* ------------------------ codec round trips ---------------------------- *)

\* a routing state is exported: state_to_base64 / state_compress
EncodeState(state, compress) ==
    /\ cpc.stage = "idle"
    /\ cpc' = [stage |-> "encoded", kind |-> "state", compress |-> compress]
    /\ cval' = state
    /\ cblob' = IF compress THEN state_compress(state)
                ELSE state_to_base64(state)
    /\ UNCHANGED <<singletonVars, speechVars, refVars, moreVars>>
    /\ UNCHANGED <<agentVars, callerVars, historyVars, routeVars, apiVars,
                   chist, cout>>

\* a transcript is exported: chat_history_to_base64 / chat_history_compress
EncodeHistory(history, compress) ==
    /\ cpc.stage = "idle"
    /\ cpc' = [stage |-> "encoded", kind |-> "history",
               compress |-> compress]
    /\ chist' = history
    /\ cblob' = IF compress THEN chat_history_compress(history)
                ELSE chat_history_to_base64(history)
    /\ UNCHANGED <<singletonVars, speechVars, refVars, moreVars>>
    /\ UNCHANGED <<agentVars, callerVars, historyVars, routeVars, apiVars,
                   cval, cout>>

\* the exported string is imported again: state_from_base64 /
\* state_decompress / chat_history_from_base64 / chat_history_decompress
Decode ==
    /\ cpc.stage = "encoded"
    /\ cpc' = [cpc EXCEPT !.stage = "decoded"]
    /\ cout' = IF cpc.kind = "state"
               THEN LET r == IF cpc.compress THEN state_decompress(cblob)
                             ELSE state_from_base64(cblob)
                    IN [ok |-> r.ok, val |-> r.val, history |-> <<>>]
               ELSE LET r == IF cpc.compress
                             THEN chat_history_decompress(cblob)
                             ELSE chat_history_from_base64(cblob)
                    IN [ok |-> r.ok, val |-> PyInt(0),
                        history |-> r.history]
    /\ UNCHANGED <<singletonVars, speechVars, refVars, moreVars>>
    /\ UNCHANGED <<agentVars, callerVars, historyVars, routeVars, apiVars,
                   cval, chist, cblob>>

\* the next round trip
CodecReset ==
    /\ cpc.stage = "decoded"
    /\ cpc' = NoCodec
    /\ cval' = PyInt(0)
    /\ chist' = <<>>
    /\ cblob' = <<>>
    /\ cout' = NoDecoded
    /\ UNCHANGED <<singletonVars, speechVars, refVars, moreVars>>
    /\ UNCHANGED <<agentVars, callerVars, historyVars, routeVars, apiVars>>

(* ----------------------- utils/singleton.py ---------------------------- *)

\* a wrapper that constructs on every call
NotStored_Always(cls) == TRUE

\* wrapper: if cls not in instances
NotStored(cls) == instances[cls] = NoInstance

\* wrapper(*args, **kwargs) is called: the membership test
CtorCall(cls, arg) ==
    /\ spc = "idle"
    /\ scall' = [cls |-> cls, arg |-> arg]
    /\ spc' = IF NotStored(cls) THEN "create" ELSE "return"
    /\ UNCHANGED <<instances, made, inits>>
    /\ UNCHANGED <<agentVars, callerVars, historyVars, routeVars, apiVars,
                   codecVars, speechVars, refVars, moreVars>>

\* wrapper: instances[cls] = cls(*args, **kwargs); __init__ runs with the
\* arguments of this call and the new object is stored
CtorCreate ==
    /\ spc = "create"
    /\ instances' = [instances EXCEPT ![scall.cls] =
                        [id |-> inits["HandsoffAgent"] + inits["AClass"] + 1,
                         value |-> scall.arg]]
    /\ inits' = [inits EXCEPT ![scall.cls] = @ + 1]
    /\ spc' = "return"
    /\ UNCHANGED <<scall, made>>
    /\ UNCHANGED <<agentVars, callerVars, historyVars, routeVars, apiVars,
                   codecVars, speechVars, refVars, moreVars>>

\* wrapper: return instances[cls]
CtorReturn ==
    /\ spc = "return"
    /\ made' = Append(made, [cls |-> scall.cls, arg |-> scall.arg,
                             id |-> instances[scall.cls].id,
                             value |-> instances[scall.cls].value])
    /\ scall' = NoCall
    /\ spc' = "idle"
    /\ UNCHANGED <<instances, inits>>
    /\ UNCHANGED <<agentVars, callerVars, historyVars, routeVars, apiVars,
                   codecVars, speechVars, refVars, moreVars>>

(* ------------------- the /speech/stream WebSocket ---------------------- *)

\* AzureSpeechStreamingProcessor(...) followed by initialize() with the
\* given outcome
Processor(outcome) ==
    [made |-> TRUE,
     recognizer |-> outcome \in {"ok", "handlers_failed"},
     audio_stream |-> outcome \in {"ok", "no_recognizer", "handlers_failed"},
     is_running |-> FALSE]

\* a message of the given type arrives
Receive(type) ==
    /\ sp_count' = sp_count + 1
    /\ sp_in' = [type |-> type, configured |-> sp_configured,
                 running |-> speech_processor.is_running]

\* what the handler and the sender threads leave alone
SenderFrame ==
    UNCHANGED <<agentVars, callerVars, historyVars, routeVars, apiVars,
                codecVars, singletonVars, refVars, multiVars, rcall,
                foundryVars>>

SpeechFrame ==
    UNCHANGED <<agentVars, callerVars, historyVars, routeVars, apiVars,
                codecVars, singletonVars, refVars, moreVars>>

\* background_task = threading.Thread(...); background_task.start(), after
\* stop_event.clear()
StartSender ==
    /\ stop_event' = FALSE
    /\ sp_alive' = sp_alive \cup {sp_threads + 1}

\* msg_type == "config": without the environment variables an error is
\* sent; otherwise speech_processor is assigned a new processor and
\* initialize() decides between config_success and an error
SpeechConfig(envOk, outcome) ==
    /\ Receive("config")
    /\ IF ~envOk
       THEN /\ sp_reply' = "error"
            /\ UNCHANGED <<speech_processor, sp_configured>>
       ELSE /\ speech_processor' = Processor(outcome)
            /\ sp_reply' = IF outcome = "ok" THEN "config_success" ELSE "error"
            /\ sp_configured' = (sp_configured \/ outcome = "ok")
    /\ UNCHANGED <<sp_started, sp_threads, sp_pushed>>
    /\ SpeechFrame

\* msg_type == "start": `if not speech_processor` is answered with an
\* error; start_continuous_recognition() returns False without a recognizer
\* or when start_continuous_recognition_async raises, True when already
\* running or started; on True a result-sender thread is created
SpeechStart(startOk) ==
    /\ Receive("start")
    /\ results_queue' = <<>>
    /\ IF ~speech_processor.made
       THEN /\ sp_reply' = "error"
            /\ UNCHANGED <<speech_processor, sp_started, sp_threads,
                           stop_event, sp_alive>>
       ELSE IF ~speech_processor.recognizer
       THEN /\ sp_reply' = "error"
            /\ UNCHANGED <<speech_processor, sp_started, sp_threads,
                           stop_event, sp_alive>>
       ELSE IF speech_processor.is_running
       THEN /\ sp_reply' = "start_success"
            /\ sp_threads' = sp_threads + 1
            /\ StartSender
            /\ UNCHANGED <<speech_processor, sp_started>>
       ELSE IF startOk
       THEN /\ speech_processor' = [speech_processor EXCEPT !.is_running = TRUE]
            /\ sp_started' = sp_started + 1
            /\ sp_threads' = sp_threads + 1
            /\ StartSender
            /\ sp_reply' = "start_success"
       ELSE /\ sp_reply' = "error"
            /\ UNCHANGED <<speech_processor, sp_started, sp_threads,
                           stop_event, sp_alive>>
    /\ UNCHANGED <<sp_configured, sp_pushed, sp_hold, sp_sent, sp_results>>
    /\ SenderFrame

\* msg_type == "audio": without a running processor an error is sent;
\* otherwise a chunk that decodes and converts is handed to
\* push_audio_data, which writes it when there is a stream and recognition
\* is running; a chunk that does not decode is answered with an error
SpeechAudio(hasData, decodeOk) ==
    /\ Receive("audio")
    /\ IF ~speech_processor.made \/ ~speech_processor.is_running
       THEN /\ sp_reply' = "error"
            /\ UNCHANGED sp_pushed
       ELSE IF ~hasData
       THEN UNCHANGED <<sp_reply, sp_pushed>>
       ELSE IF ~decodeOk
       THEN /\ sp_reply' = "error"
            /\ UNCHANGED sp_pushed
       ELSE /\ sp_pushed' = IF speech_processor.audio_stream
                               /\ speech_processor.is_running
                            THEN sp_pushed + 1 ELSE sp_pushed
            /\ UNCHANGED sp_reply
    /\ UNCHANGED <<speech_processor, sp_configured, sp_started, sp_threads>>
    /\ SpeechFrame

\* msg_type == "stop": with a processor, stop_continuous_recognition(),
\* stop_event.set() and background_task.join(): the handler waits until the
\* thread created last has sent what it holds and has left its loop; then
\* results_queue is cleared and stop_success is sent
SpeechStop ==
    /\ Receive("stop")
    /\ speech_processor' =
          IF speech_processor.made /\ speech_processor.recognizer
             /\ speech_processor.is_running
          THEN [speech_processor EXCEPT !.is_running = FALSE]
          ELSE speech_processor
    /\ IF speech_processor.made
       THEN /\ stop_event' = TRUE
            /\ sp_alive' = sp_alive \ {sp_threads}
            /\ IF sp_threads \in sp_alive /\ sp_hold[sp_threads] # 0
               THEN /\ sp_sent' = Append(sp_sent, sp_hold[sp_threads])
                    /\ sp_hold' = [sp_hold EXCEPT ![sp_threads] = 0]
               ELSE UNCHANGED <<sp_sent, sp_hold>>
       ELSE UNCHANGED <<stop_event, sp_alive, sp_sent, sp_hold>>
    /\ results_queue' = <<>>
    /\ sp_reply' = "stop_success"
    /\ UNCHANGED <<sp_configured, sp_started, sp_threads, sp_pushed,
                   sp_results>>
    /\ SenderFrame

\* msg_type == "ping" is answered with pong, any other type with an error
\* after results_queue was cleared
SpeechOther(type) ==
    /\ Receive(type)
    /\ sp_reply' = IF type = "ping" THEN "pong" ELSE "error"
    /\ results_queue' = IF type = "ping" THEN results_queue ELSE <<>>
    /\ UNCHANGED <<speech_processor, sp_configured, sp_started, sp_threads,
                   sp_pushed, stop_event, sp_alive, sp_hold, sp_sent,
                   sp_results>>
    /\ SenderFrame

\* _on_session_stopped / _on_canceled, called by the recognizer's thread:
\* self.is_running = False
SpeechSessionStopped ==
    /\ speech_processor.is_running
    /\ speech_processor' = [speech_processor EXCEPT !.is_running = FALSE]
    /\ UNCHANGED <<sp_in, sp_reply, sp_count, sp_configured, sp_started,
                   sp_threads, sp_pushed>>
    /\ SpeechFrame

\* _on_recognizing / _on_recognized, called by the recognizer's thread with
\* a text: the result is put on queue_output, which is results_queue
SpeechResult ==
    /\ speech_processor.is_running
    /\ results_queue' = Append(results_queue, sp_results + 1)
    /\ sp_results' = sp_results + 1
    /\ UNCHANGED <<speechVars, stop_event, sp_alive, sp_hold, sp_sent>>
    /\ SenderFrame

\* send_recognition_results, one pass of the loop of thread th up to the
\* get: while stop_event is not set and the queue is not empty,
\* result = results_queue.get()
SenderTake(th) ==
    /\ th \in sp_alive
    /\ sp_hold[th] = 0
    /\ ~stop_event
    /\ results_queue # <<>>
    /\ sp_hold' = [sp_hold EXCEPT ![th] = Head(results_queue)]
    /\ results_queue' = Tail(results_queue)
    /\ UNCHANGED <<speechVars, stop_event, sp_alive, sp_sent, sp_results>>
    /\ SenderFrame

\* send_recognition_results: await websocket.send_json(result)
SenderSend(th) ==
    /\ th \in sp_alive
    /\ sp_hold[th] # 0
    /\ sp_sent' = Append(sp_sent, sp_hold[th])
    /\ sp_hold' = [sp_hold EXCEPT ![th] = 0]
    /\ UNCHANGED <<speechVars, results_queue, stop_event, sp_alive,
                   sp_results>>
    /\ SenderFrame

\* send_recognition_results: the loop test finds stop_event set, the
\* thread ends
SenderExit(th) ==
    /\ th \in sp_alive
    /\ sp_hold[th] = 0
    /\ stop_event
    /\ sp_alive' = sp_alive \ {th}
    /\ UNCHANGED <<speechVars, results_queue, stop_event, sp_hold, sp_sent,
                   sp_results>>
    /\ SenderFrame

(* ------------- @singleton: constructor calls by several threads -------- *)

RaceFrame ==
    UNCHANGED <<agentVars, callerVars, historyVars, routeVars, apiVars,
                codecVars, speechVars, refVars, multiVars, senderVars,
                foundryVars, spc, scall>>

\* the wrapper calls begun so far
RaceCalls ==
    Len(made) + Cardinality({t \in CtorThreads : rcall[t].pc # "idle"})

\* wrapper(*args, **kwargs) is called by thread t: the membership test
RaceCall(t, cls, arg) ==
    /\ rcall[t].pc = "idle"
    /\ rcall' = [rcall EXCEPT ![t] =
                    [pc |-> IF NotStored(cls) THEN "init" ELSE "return",
                     cls |-> cls, arg |-> arg, obj |-> NoInstance]]
    /\ UNCHANGED <<instances, made, inits>>
    /\ RaceFrame

\* wrapper: the right-hand side cls(*args, **kwargs): __init__ runs and
\* makes a new object
RaceInit(t) ==
    /\ rcall[t].pc = "init"
    /\ rcall' = [rcall EXCEPT ![t].pc = "store",
                              ![t].obj =
                        [id |-> inits["HandsoffAgent"] + inits["AClass"] + 1,
                         value |-> rcall[t].arg]]
    /\ inits' = [inits EXCEPT ![rcall[t].cls] = @ + 1]
    /\ UNCHANGED <<instances, made>>
    /\ RaceFrame

\* wrapper: instances[cls] = <the new object>
RaceStore(t) ==
    /\ rcall[t].pc = "store"
    /\ instances' = [instances EXCEPT ![rcall[t].cls] = rcall[t].obj]
    /\ rcall' = [rcall EXCEPT ![t].pc = "return"]
    /\ UNCHANGED <<made, inits>>
    /\ RaceFrame

\* wrapper: return instances[cls]
RaceReturn(t) ==
    /\ rcall[t].pc = "return"
    /\ made' = Append(made, [cls |-> rcall[t].cls, arg |-> rcall[t].arg,
                             id |-> instances[rcall[t].cls].id,
                             value |-> instances[rcall[t].cls].value])
    /\ rcall' = [rcall EXCEPT ![t] = NoThreadCall]
    /\ UNCHANGED <<instances, inits>>
    /\ RaceFrame

(* ----------------------------- MultiAgent ------------------------------ *)

MultiFrame ==
    UNCHANGED <<agentVars, callerVars, historyVars, routeVars, apiVars,
                codecVars, singletonVars, speechVars, refVars, rcall,
                senderVars, foundryVars>>

\* a slip in the guards: the buffer is tested instead of main_tasks
MainTasksSet_Buffered == buffered_user_input # NoInput

\* self.main_tasks is not None
MainTasksSet == main_tasks # NoInput

\* start_agent(message): raises when main_tasks is set; otherwise records the
\* message as main_tasks and in chat_history and invokes the orchestration
MultiStartAgent(m) ==
    /\ multi_calls' = multi_calls + 1
    /\ IF MainTasksSet
       THEN /\ multi_in' = [op |-> "start_agent", raised |-> TRUE]
            /\ multi_rejected' = multi_rejected \cup {"start_agent"}
            /\ UNCHANGED <<main_tasks, multi_history, multi_running>>
       ELSE /\ multi_in' = [op |-> "start_agent", raised |-> FALSE]
            /\ main_tasks' = m
            /\ multi_history' = Append(multi_history, UserMessage(m))
            /\ multi_running' = TRUE
            /\ UNCHANGED multi_rejected
    /\ UNCHANGED <<buffered_user_input, multi_sent, multi_got, multi_emits>>
    /\ MultiFrame

\* send_message(message): raises when main_tasks is None; otherwise
\* self.buffered_user_input = message
MultiSendMessage(m) ==
    /\ multi_calls' = multi_calls + 1
    /\ IF ~MainTasksSet
       THEN /\ multi_in' = [op |-> "send_message", raised |-> TRUE]
            /\ multi_rejected' = multi_rejected \cup {"send_message"}
            /\ UNCHANGED <<buffered_user_input, multi_sent>>
       ELSE /\ multi_in' = [op |-> "send_message", raised |-> FALSE]
            /\ buffered_user_input' = m
            /\ multi_sent' = Append(multi_sent, m)
            /\ UNCHANGED multi_rejected
    /\ UNCHANGED <<main_tasks, multi_history, multi_running, multi_got,
                   multi_emits>>
    /\ MultiFrame

\* _wait_for_user_input, called by the orchestration when it needs the next
\* human turn: while the buffer is None it sleeps and calls itself again;
\* otherwise it takes the buffered message, clears the buffer, records the
\* message in chat_history and returns it
MultiWaitForUserInput ==
    /\ multi_running
    /\ buffered_user_input # NoInput
    /\ buffered_user_input' = NoInput
    /\ multi_history' = Append(multi_history, UserMessage(buffered_user_input))
    /\ multi_got' = Append(multi_got, buffered_user_input)
    /\ UNCHANGED <<main_tasks, multi_running, multi_in, multi_sent,
                   multi_rejected, multi_calls, multi_emits>>
    /\ MultiFrame

\* _on_agent_response: self.chat_history.add_message(response)
MultiOnAgentResponse(content) ==
    /\ multi_running
    /\ multi_history' = Append(multi_history, AssistantMessage(content))
    /\ multi_emits' = multi_emits + 1
    /\ UNCHANGED <<main_tasks, buffered_user_input, multi_running, multi_in,
                   multi_sent, multi_got, multi_rejected, multi_calls>>
    /\ MultiFrame

\* start_agent: await orchestration_result.get() returns, the run is over
\* (main_tasks stays set)
MultiComplete ==
    /\ multi_running
    /\ multi_running' = FALSE
    /\ UNCHANGED <<main_tasks, buffered_user_input, multi_history, multi_in,
                   multi_sent, multi_got, multi_rejected, multi_calls,
                   multi_emits>>
    /\ MultiFrame

(* ------------- FoundryAgent.stream_chat_async, /foundry/chat ----------- *)

\* texts are sequences of characters
Sentinel == <<"[", "[", "D", "O", "N", "E", "]", "]">>

ErrorPrefix == <<"E", "R", "R", "O", "R", ":">>

\* str.startswith
StartsWith(s, prefix) ==
    /\ Len(s) >= Len(prefix)
    /\ SubSeq(s, 1, Len(prefix)) = prefix

\* the texts a MessageDeltaChunk of the model can carry
Chunks ==
    {<<"h", "i">>, <<"!">>, ErrorPrefix \o <<"x">>, Sentinel}

\* str(e) of the exceptions of the agents client
StreamErrors == {<<"b", "o", "o", "m">>}

\* f"ERROR: {str(e)}"
ErrorItem(e) == ErrorPrefix \o <<" ">> \o e

\* the dict handed to json.dumps in one "data: ..." event
Event(key, value) == [key |-> key, value |-> value]

KeepaliveEvent == Event("keepalive", <<"true">>)

FoundryFrame ==
    UNCHANGED <<agentVars, callerVars, historyVars, routeVars, apiVars,
                codecVars, singletonVars, speechVars, refVars, multiVars,
                rcall, senderVars>>

\* chunk_queue.put(item)
ChunkPut(item) ==
    /\ chunk_queue' = Append(chunk_queue, item)
    /\ f_put' = Append(f_put, item)

\* generate_response up to thread.start(): a new queue, the streaming
\* thread started
GenerateResponse ==
    /\ gpc = "idle"
    /\ chunk_queue' = <<>>
    /\ fpc' = "create"
    /\ gpc' = "loop"
    /\ UNCHANGED <<f_events, f_produced, f_put, f_failed, g_yield,
                   g_keepalives>>
    /\ FoundryFrame

\* the except branch of stream_chat_async, first put
StreamExcept(e) ==
    /\ ChunkPut(ErrorItem(e))
    /\ f_failed' = TRUE
    /\ fpc' = "err"

\* messages.create and runs.stream: they return, or one of them raises
StreamCreate(ok) ==
    /\ fpc = "create"
    /\ IF ok
       THEN /\ fpc' = "run"
            /\ UNCHANGED <<chunk_queue, f_put, f_failed>>
       ELSE \E e \in StreamErrors : StreamExcept(e)
    /\ UNCHANGED <<gpc, f_events, f_produced, g_yield, g_keepalives>>
    /\ FoundryFrame

\* one turn of "for response in run_stream.event_handler" with a
\* MessageDeltaChunk
StreamChunk(text) ==
    /\ fpc = "run"
    /\ f_events < MaxStream
    /\ f_events' = f_events + 1
    /\ f_produced' = Append(f_produced, text)
    /\ ChunkPut(text)
    /\ UNCHANGED <<fpc, gpc, f_failed, g_yield, g_keepalives>>
    /\ FoundryFrame

\* one turn with an event that is not a MessageDeltaChunk: continue
StreamOther ==
    /\ fpc = "run"
    /\ f_events < MaxStream
    /\ f_events' = f_events + 1
    /\ UNCHANGED <<chunk_queue, fpc, gpc, f_produced, f_put, f_failed,
                   g_yield, g_keepalives>>
    /\ FoundryFrame

\* the iteration raises
StreamRaise ==
    /\ fpc = "run"
    /\ f_events < MaxStream
    /\ f_events' = f_events + 1
    /\ \E e \in StreamErrors : StreamExcept(e)
    /\ UNCHANGED <<gpc, f_produced, g_yield, g_keepalives>>
    /\ FoundryFrame

\* the stream is exhausted: chunk_queue.put("[[DONE]]")
StreamDone ==
    /\ fpc = "run"
    /\ ChunkPut(Sentinel)
    /\ fpc' = "done"
    /\ UNCHANGED <<gpc, f_events, f_produced, f_failed, g_yield,
                   g_keepalives>>
    /\ FoundryFrame

\* the except branch, second put
StreamExceptDone ==
    /\ fpc = "err"
    /\ ChunkPut(Sentinel)
    /\ fpc' = "done"
    /\ UNCHANGED <<gpc, f_events, f_produced, f_failed, g_yield,
                   g_keepalives>>
    /\ FoundryFrame

\* chunk_queue.get(timeout=30) returns an item
GenGet ==
    /\ gpc = "loop"
    /\ chunk_queue # <<>>
    /\ LET chunk == Head(chunk_queue)
       IN  /\ chunk_queue' = Tail(chunk_queue)
           /\ IF chunk = Sentinel
              THEN /\ gpc' = "join"
                   /\ UNCHANGED g_yield
              ELSE IF StartsWith(chunk, ErrorPrefix)
              THEN /\ g_yield' =
                        Append(g_yield,
                               Event("error",
                                     SubSeq(chunk, 7, Len(chunk))))
                   /\ gpc' = "join"
              ELSE /\ g_yield' = Append(g_yield, Event("chunk", chunk))
                   /\ UNCHANGED gpc
    /\ UNCHANGED <<fpc, f_events, f_produced, f_put, f_failed,
                   g_keepalives>>
    /\ FoundryFrame

\* chunk_queue.get(timeout=30) raises queue.Empty
GenKeepalive ==
    /\ gpc = "loop"
    /\ chunk_queue = <<>>
    /\ g_keepalives < MaxKeepalive
    /\ g_keepalives' = g_keepalives + 1
    /\ g_yield' = Append(g_yield, KeepaliveEvent)
    /\ UNCHANGED <<chunk_queue, fpc, gpc, f_events, f_produced, f_put,
                   f_failed>>
    /\ FoundryFrame

\* thread.join(timeout=5) returns, with the thread finished or not; the
\* completion event
GenComplete ==
    /\ gpc = "join"
    /\ g_yield' = Append(g_yield, Event("chunk", Sentinel))
    /\ gpc' = "done"
    /\ UNCHANGED <<chunk_queue, fpc, f_events, f_produced, f_put, f_failed,
                   g_keepalives>>
    /\ FoundryFrame

(* --------------------------- specification ----------------------------- *)

WorkerNext(contents, maxEmit) ==
    \/ \E t \in Threads : WorkerLoopGet(t)
    \/ \E t \in Threads, m \in contents : emits < maxEmit /\ WorkerEmit(t, m)
    \/ \E t \in Threads : WorkerAwaitInput(t)
    \/ \E t \in Threads, m \in contents, l \in BOOLEAN :
          emits < maxEmit /\ WorkerComplete(t, m, l)
    \/ \E t \in Threads : WorkerRaise(t)
    \/ \E t \in Threads : WorkerCopy(t)
    \/ \E t \in Threads : WorkerArm(t)

TimerNext ==
    \/ \E i \in DOMAIN timers : TimerExpire(i)
    \/ \E i \in DOMAIN timers : TimerPut(i)
    \/ \E i \in DOMAIN timers : TimerReset(i)
    \/ Tick

ChatNext(cs) ==
    \/ \E c \in cs : ChatAdd(c)
    \/ \E c \in cs : ChatPut(c)
    \/ \E c \in cs : ChatCheck(c)
    \/ \E c \in cs : StartCheck(c)
    \/ \E c \in cs : StartAssign(c)
    \/ \E c \in cs : StartStart(c)
    \/ \E c \in cs : ChatGet(c)

\* one request thread issuing its requests one after the other
Next ==
    \/ \E c \in SoloCallers, m \in UserMsgs \cup {<<>>} :
          calls < MaxCalls /\ HandlerStart(c, m)
    \/ \E c \in SoloCallers : ChatInvalid(c)
    \/ \E c \in SoloCallers : HandlerExcept(c)
    \/ ChatNext(SoloCallers)
    \/ WorkerNext(AgentContents, MaxEmit)
    \/ \E t \in Threads : WorkerUserInput(t)
    \/ TimerNext

Spec == Init /\ [][Next]_vars

\* two request threads inside the handler at the same time, each request
\* carrying a valid message, the agents answering with text
ConcNext ==
    \/ \E c \in Callers, m \in UserMsgs : calls < ConcCalls /\ HandlerStart(c, m)
    \/ \E c \in Callers : HandlerExcept(c)
    \/ ChatNext(Callers)
    \/ WorkerNext(AgentTexts, ConcEmit)
    \/ \E t \in Threads : WorkerUserInput(t)
    \/ TimerNext

ConcSpec == Init /\ [][ConcNext]_vars

\* a single valid request and the agents' messages of its turn (its chat()
\* cannot raise, and no second message arrives for __user_input__)
BurstNext ==
    \/ \E c \in SoloCallers : calls = 0 /\ HandlerStart(c, <<"x">>)
    \/ ChatNext(SoloCallers)
    \/ WorkerNext(AgentTexts \cup {<<" ">>}, BurstEmit)
    \/ TimerNext

BurstSpec == Init /\ [][BurstNext]_vars

\* the same, with every thread that can take a step eventually taking one
\* (the operating system schedules every runnable thread; a request is never
\* forced to arrive)
FairSpec ==
    /\ Spec
    /\ WF_vars(\/ ChatNext(SoloCallers)
               \/ \E c \in SoloCallers : ChatInvalid(c) \/ HandlerExcept(c))
    /\ WF_vars(\/ WorkerNext(AgentContents, MaxEmit)
               \/ \E t \in Threads : WorkerUserInput(t))
    /\ WF_vars(TimerNext)

\* a single valid request whose turn brings messages of every kind of
\* content: None, empty, whitespace only, text
DropNext ==
    \/ \E c \in SoloCallers : calls = 0 /\ HandlerStart(c, <<"x">>)
    \/ ChatNext(SoloCallers)
    \/ WorkerNext(AgentContents, DropEmit)
    \/ TimerNext

DropSpec == Init /\ [][DropNext]_vars

HandoffNext ==
    \/ \E c \in SoloCallers :
          calls < HandoffChats /\ HandlerStart(c, <<"x">>)
    \/ ChatNext(SoloCallers)
    \/ WorkerNext(AgentTexts, HandoffEmit)
    \/ \E t \in Threads, a \in DOMAIN Handoffs :
          handoffs_done < MaxHandoffs /\ Handoff(t, a)
    \/ TimerNext

\* one caller, an orchestration whose agents hand off to one another
HandoffSpec == Init /\ [][HandoffNext]_vars

ApiNext ==
    \/ \E c \in SoloCallers : calls < ApiChats /\ HandlerStart(c, <<"x">>)
    \/ ChatNext(SoloCallers)
    \/ WorkerNext(AgentTexts, ApiEmit)
    \/ \E t \in Threads : WorkerUserInput(t)
    \/ TimerNext
    \/ apiCalls < MaxApi /\ HistoryExportGet
    \/ \E z \in BOOLEAN : HistoryExportEncode(z)
    \/ \E d \in RunningHistoryImports, z \in BOOLEAN :
          apiCalls < MaxApi /\ HistoryImport(d, z)
    \/ apiCalls < MaxApi /\ StateExport
    \/ apiCalls < MaxApi /\ StateExportCompress
    \/ \E d \in RunningStateImports, z \in BOOLEAN, i \in BOOLEAN :
          apiCalls < MaxApi /\ StateImport(d, z, i)

\* one caller of chat() and a client of the history and state routes
ApiSpec == Init /\ [][ApiNext]_vars

ImportNext ==
    \/ apiCalls < MaxImports /\ HistoryExportGet
    \/ \E z \in BOOLEAN : HistoryExportEncode(z)
    \/ \E d \in HistoryImports \cup LastExport("history_export"),
          z \in BOOLEAN :
          apiCalls < MaxImports /\ HistoryImport(d, z)
    \/ apiCalls < MaxImports /\ StateExport
    \/ apiCalls < MaxImports /\ StateExportCompress
    \/ \E d \in StateImports \cup LastExport("state_export"),
          z \in BOOLEAN, i \in BOOLEAN :
          apiCalls < MaxImports /\ StateImport(d, z, i)

\* a client of the history and state routes of a session nobody chats with
ImportSpec == Init /\ [][ImportNext]_vars

CodecNext ==
    \/ \E state \in RoundTripStates, z \in BOOLEAN : EncodeState(state, z)
    \/ \E history \in RoundTripHistories, z \in BOOLEAN :
          EncodeHistory(history, z)
    \/ Decode
    \/ CodecReset

\* exports that are imported again
CodecSpec == Init /\ [][CodecNext]_vars

SingletonNext ==
    \/ \E arg \in CtorArgs : Len(made) < MaxCtor /\ CtorCall("AClass", arg)
    \/ Len(made) < MaxCtor /\ CtorCall("HandsoffAgent", NoArg)
    \/ CtorCreate
    \/ CtorReturn

\* constructor calls of decorated classes, one after the other
SingletonSpec == Init /\ [][SingletonNext]_vars

SenderNext ==
    \/ \E e \in BOOLEAN : sp_count < MaxSpeechMsgs /\ SpeechConfig(e, "ok")
    \/ \E ok \in BOOLEAN : sp_count < MaxSpeechMsgs /\ SpeechStart(ok)
    \/ sp_count < MaxSpeechMsgs /\ SpeechStop
    \/ sp_count < MaxSpeechMsgs /\ SpeechOther("other")
    \/ SpeechSessionStopped
    \/ sp_results < MaxResults /\ SpeechResult
    \/ \E th \in Senders : SenderTake(th)
    \/ \E th \in Senders : SenderSend(th)
    \/ \E th \in Senders : SenderExit(th)

\* one WebSocket connection, the recognizer's results and the threads that
\* send them
SenderSpec == Init /\ [][SenderNext]_vars

RaceNext ==
    \/ \E t \in CtorThreads, arg \in CtorArgs :
          RaceCalls < MaxRaceCalls /\ RaceCall(t, "AClass", arg)
    \/ \E t \in CtorThreads :
          RaceCalls < MaxRaceCalls /\ RaceCall(t, "HandsoffAgent", NoArg)
    \/ \E t \in CtorThreads : RaceInit(t)
    \/ \E t \in CtorThreads : RaceStore(t)
    \/ \E t \in CtorThreads : RaceReturn(t)

\* constructor calls of decorated classes made by two threads at once
RaceSpec == Init /\ [][RaceNext]_vars

MultiNext ==
    \/ \E m \in UserMsgs : multi_calls < MaxMultiCalls /\ MultiStartAgent(m)
    \/ \E m \in UserMsgs : multi_calls < MaxMultiCalls /\ MultiSendMessage(m)
    \/ MultiWaitForUserInput
    \/ \E m \in AgentTexts :
          multi_emits < MaxMultiEmit /\ MultiOnAgentResponse(m)
    \/ MultiComplete

\* the requests of the multi/chat/start and multi/chat routes and the
\* orchestration they drive
MultiSpec == Init /\ [][MultiNext]_vars

SpeechNext ==
    \/ \E e \in BOOLEAN, o \in InitOutcomes :
          sp_count < MaxSpeechMsgs /\ SpeechConfig(e, o)
    \/ \E ok \in BOOLEAN : sp_count < MaxSpeechMsgs /\ SpeechStart(ok)
    \/ \E d \in BOOLEAN, ok \in BOOLEAN :
          sp_count < MaxSpeechMsgs /\ SpeechAudio(d, ok)
    \/ sp_count < MaxSpeechMsgs /\ SpeechStop
    \/ \E type \in {"ping", "other"} :
          sp_count < MaxSpeechMsgs /\ SpeechOther(type)
    \/ SpeechSessionStopped

\* one WebSocket connection receiving messages in any order
SpeechSpec == Init /\ [][SpeechNext]_vars

FoundryNext ==
    \/ GenerateResponse
    \/ \E ok \in BOOLEAN : StreamCreate(ok)
    \/ \E text \in Chunks : StreamChunk(text)
    \/ StreamOther
    \/ StreamRaise
    \/ StreamDone
    \/ StreamExceptDone
    \/ GenGet
    \/ GenKeepalive
    \/ GenComplete

\* one /foundry/chat request: the streaming thread and the generator
FoundrySpec == Init /\ [][FoundryNext]_vars

(* ------------------------------ claims --------------------------------- *)

StartedWorkers == {t \in Threads : Started(t)}

LiveWorkers == {t \in Threads : Live(t)}

\* the handler invocation of caller c has ended
Finished(c) == pc[c] = "idle" /\ resp[c].kind # "none"

\* C1: concurrent chat() calls on a session whose worker has not started
\* start exactly one worker thread: never have two worker threads been
\* started for the session.
C1_AtMostOneWorkerStarted == Cardinality(StartedWorkers) <= 1

\* no timer callback has raced with an append: none is between its
\* comparison and its reset, and none has discarded a text
NoFlushRace == ~lost /\ \A i \in DOMAIN timers : timers[i].pc = "armed"

\* C2: the string returned by a chat() call is exactly the "\n\n"-join of the
\* texts the agents emitted during the turn of that call's message, once
\* that turn is over: not a prefix of it, and nothing from another turn
\* (stated for the runs in which no flush raced with an append, so that a
\* violation is due to the delay between two messages alone).
C2_ReplyIsWholeTurn ==
    \A c \in Callers :
        (resp[c].kind = "ok" /\ ticket[c] \in DOMAIN turnDone
            /\ turnDone[ticket[c]] /\ NoFlushRace)
        => resp[c].body = JoinWith(Sep, turnMsgs[ticket[c]])

\* the debounce is quiet: a whole flush delay has passed since the last
\* append and every timer that was due has run
Quiet ==
    /\ sinceAppend = FlushDelay
    /\ timers = <<>>
    /\ \A t \in Threads : ~InDebounce(t)

C4_NoEmptyDuplicateOrLostFlush ==
    /\ ~lost
    /\ ~dup
    /\ \A i \in DOMAIN outLog : outLog[i] # <<>>

\* C5: every chat() call eventually returns to its caller.
C5_ChatEventuallyReturns ==
    \A c \in SoloCallers : (pc[c] = "chat_get") ~> (pc[c] = "idle")

\* C6: a chat() call that begins after the worker has raised fails at once:
\* it does not get as far as waiting on queue_output and does not return a
\* reply.
C6_ChatAfterFaultFailsFast ==
    \A c \in Callers :
        afterFault[c] => (pc[c] # "chat_get" /\ resp[c].kind # "ok")

\* C7: the restart_agent() call of the handler terminates the current worker
\* and clears the fault (no worker is left alive, main_session is None again)
\* and leaves chat_history as it was.
C7_RestartStopsWorkerKeepsTranscript ==
    [][\A c \in Callers :
          restartTries'[c] > restartTries[c]
          => /\ chat_history' = chat_history
             /\ main_session' = None
             /\ \A t \in Threads : ~Live(t)']_vars

\* C8: a chat() call that begins after a restart starts a fresh worker
\* lazily: when it goes on to wait for its reply, exactly one live worker
\* consumes queue_input.
C8_ChatAfterRestartHasWorker ==
    [][\A c \in Callers :
          (afterRestart[c] /\ pc[c] # "chat_get" /\ pc'[c] = "chat_get")
          => Cardinality(LiveWorkers)' = 1]_vars

\* C9: a handler invocation whose chat() failed, whatever the error, has
\* attempted the restart at most once and has replayed the message exactly
\* once (chat() was called twice).
C9_FailedChatReplayedOnce ==
    \A c \in Callers :
        (Finished(c) /\ err[c] # "none")
        => (restartTries[c] <= 1 /\ chatCalls[c] = 2)

\* C10: replies are received in enqueue order: the caller whose message was
\* the k-th put on queue_input is given the k-th item put on queue_output.
C10_RepliesInEnqueueOrder ==
    \A c \in Callers : resp[c].kind = "ok" => resp[c].item = ticket[c]

\* every turn so far produced exactly one agent message, and it has text
OneMessagePerTurn ==
    /\ Len(turnMsgs) = Len(inLog)
    /\ emits = Len(turnMsgs)
    /\ \A i \in DOMAIN turnMsgs : Len(turnMsgs[i]) = 1

\* user_1, assistant_1, ..., user_n, assistant_n
Alternating(users, turns) ==
    [k \in 1..(2 * Len(users)) |->
        IF k % 2 = 1
        THEN UserMessage(users[(k + 1) \div 2])
        ELSE AssistantMessage(turns[k \div 2][1])]

\* C11: in a session in which every turn produces exactly one non-empty
\* assistant message, when the n-th of n sequential chat() calls has returned
\* the transcript is user_1, assistant_1, ..., user_n, assistant_n and the
\* call returned the content of assistant_n.
C11_TranscriptAlternates ==
    \A c \in SoloCallers :
        (Finished(c) /\ resp[c].kind = "ok" /\ OneMessagePerTurn)
        => /\ chat_history = Alternating(inLog, turnMsgs)
           /\ resp[c].body = turnMsgs[Len(turnMsgs)][1]

\* a history or state import request is answered in this step
ImportAnswered ==
    /\ apiCalls' = apiCalls + 1
    /\ apiResp'.op \in {"history_import", "history_import_compress",
                       "state_import", "state_import_compress"}

\* C12: an import (set_history, set_state) requested while the background
\* worker is running is rejected and leaves the transcript and the routing
\* state unchanged.
C12_ImportRejectedWhileRunning ==
    [][(ImportAnswered /\ LiveWorkers # {})
       => /\ apiResp'.kind # "ok"
          /\ chat_history' = chat_history
          /\ runtime_state' = runtime_state]_vars

\* C13: exporting the routing state of a session whose worker has never
\* been started fails instead of returning a snapshot, in the compressed and
\* in the uncompressed variant.
C13_ExportFailsBeforeStart ==
    [][(/\ apiCalls' = apiCalls + 1
        /\ apiResp'.op \in {"state_export", "state_export_compress"}
        /\ StartedWorkers = {})
       => apiResp'.kind # "ok"]_vars

\* a value of the JSON data model: strings, integers, lists, and dicts
\* whose keys are strings
RECURSIVE JsonNative(_)
JsonNative(v) ==
    /\ v.t # "tuple"
    /\ v.t = "list" => \A i \in DOMAIN v.items : JsonNative(v.items[i])
    /\ v.t = "dict" =>
          \A i \in DOMAIN v.items :
              IF i % 2 = 1 THEN v.items[i].t = "str"
              ELSE JsonNative(v.items[i])

StateDecoded == cpc.stage = "decoded" /\ cpc.kind = "state"

\* C14 as stated: for every routing state that json.dumps accepts, decoding
\* the encoded state gives the state back, compressed or not.
C14_StateRoundTrip ==
    StateDecoded => (cout.ok /\ cout.val = cval)

\* C14, amended: for every routing state made of strings, integers, lists
\* and dicts with string keys, decoding the encoded state gives the state
\* back, compressed or not.
C14_JsonStateRoundTrip ==
    (StateDecoded /\ JsonNative(cval)) => (cout.ok /\ cout.val = cval)

\* a state with two keys, one of them with a quote, has made the round trip
\* through the compressed encoding
C14_Witness ==
    /\ StateDecoded /\ JsonNative(cval) /\ cpc.compress
    /\ Len(cval.items) = 4
    /\ cval.items[3] = PyStr(<<"\"">>)
    /\ cout.ok /\ cout.val = cval

\* C15: decoding an encoded transcript restores the same messages (role and
\* content) in the same order, compressed or not.
C15_HistoryRoundTrip ==
    (cpc.stage = "decoded" /\ cpc.kind = "history")
    => (cout.ok /\ cout.history = chist)

\* a transcript of two different messages has made the round trip through
\* the compressed encoding
C15_Witness ==
    /\ cpc.stage = "decoded" /\ cpc.kind = "history" /\ cpc.compress
    /\ Len(chist) = 2 /\ chist[1] # chist[2]
    /\ cout.ok /\ cout.history = chist

\* C16: an import request whose data fails to decode (base64, zlib, text or
\* JSON) is answered with an error, and the transcript and the routing state
\* are what they were before the request.
C16_FailedImportInstallsNothing ==
    [][(ImportAnswered /\ apiResp'.failed)
       => /\ apiResp'.kind = "http500"
          /\ chat_history' = chat_history
          /\ runtime_state' = runtime_state]_vars

\* a corrupt import was refused by a session that holds a transcript
C16_Witness ==
    /\ apiResp.op = "history_import" /\ apiResp.failed
    /\ apiResp.kind = "http500"
    /\ chat_history = ImportedHistory

\* C17: the value get_history() returned is a snapshot: it still shows the
\* transcript as it was when it was returned.
C17_GetHistoryIsSnapshot ==
    held.holds => HeldValue = heldAt

\* C18: while the background worker is running the transcript is changed
\* only by the worker's callback, never by chat(), set_history() or an
\* import handler.
C18_OnlyWorkerMutatesTranscript ==
    [][(LiveWorkers # {} /\ chat_history' # chat_history)
       => emits' = emits + 1]_vars

\* the agents and the handoff table the claim names
ClaimedAgents == {"OrchestratorAgent", "DocumentSearchAgent", "LightAgent"}

ClaimedHandoffs ==
    {<<"OrchestratorAgent", "DocumentSearchAgent">>,
     <<"OrchestratorAgent", "LightAgent">>,
     <<"DocumentSearchAgent", "OrchestratorAgent">>,
     <<"LightAgent", "OrchestratorAgent">>}

\* C19: the active agent, and the producer of every message handed to the
\* callback, is one of the three registered agents, and every change of the
\* active agent follows an edge of the handoff table.
C19_HandoffsFollowTable ==
    [][/\ active' \in ClaimedAgents
       /\ \A i \in DOMAIN producedBy' : producedBy'[i] \in ClaimedAgents
       /\ active' # active => <<active, active'>> \in ClaimedHandoffs]_vars

\* the orchestration went to the document agent, which produced a message,
\* back to the orchestrator and on to the light agent
C19_Witness ==
    /\ handoffs_done = 3
    /\ active = "LightAgent"
    /\ \E i \in DOMAIN producedBy : producedBy[i] = "DocumentSearchAgent"

\* C20: a worker whose agent invocation raised has run the turn's input
\* twice: the error is fatal only after one retry with the same input.
C20_RaiseIsFatalAfterOneRetry ==
    \A t \in Threads : wpc[t] = "raised" => attempts[t] = 2

\* content that is None, empty or made of whitespace only
Blank(content) ==
    content = NoneContent \/ \A i \in DOMAIN content : IsSpace(content[i])

\* the callback was handed a message without text in this step
BlankEmitted ==
    /\ emits' = emits + 1
    /\ Blank(chat_history'[Len(chat_history')].content)

\* C21: an agent message whose content is None, empty or whitespace only is
\* not added to output_buffer, starts no flush timer and puts nothing on
\* queue_output, and the timers that are armed are left as they are.
C21_BlankMessageDropped ==
    [][BlankEmitted
       => /\ output_buffer' = output_buffer
          /\ timers' = timers
          /\ queue_output' = queue_output
          /\ \A t \in Threads : wpc'[t] \notin {"copy", "arm"}]_vars

\* a message without text arrived while a flush was armed
C21_Witness ==
    /\ chat_history # <<>>
    /\ chat_history[Len(chat_history)].role = "assistant"
    /\ Blank(chat_history[Len(chat_history)].content)
    /\ \E i \in DOMAIN timers : timers[i].pc = "armed"

\* C22: two sessions obtained from HandsoffAgent() are different objects,
\* so that they share no queue, buffer, transcript or worker.
C22_SessionsAreDistinct ==
    \A i, j \in DOMAIN made :
        (i # j /\ made[i].cls = "HandsoffAgent" /\ made[j].cls = "HandsoffAgent")
        => made[i].id # made[j].id

\* the first finished call of the class of call i
FirstOf(i) ==
    CHOOSE k \in DOMAIN made :
        /\ made[k].cls = made[i].cls
        /\ \A l \in DOMAIN made : made[l].cls = made[i].cls => k <= l

\* C23: every constructor call of a decorated class returns the instance
\* the first call returned, __init__ ran once, and the instance has the
\* state the first call's arguments gave it.
C23_SingletonKeepsFirstInstance ==
    /\ \A cls \in Classes : inits[cls] <= 1
    /\ \A i \in DOMAIN made :
          /\ made[i].id = made[FirstOf(i)].id
          /\ made[i].value = made[FirstOf(i)].arg

\* AClass(50) and then AClass(200) have returned
C23_Witness ==
    \E i, j \in DOMAIN made :
        /\ i < j
        /\ made[i].cls = "AClass" /\ made[i].arg = 50
        /\ made[j].cls = "AClass" /\ made[j].arg = 200
        /\ made[j].value = 50

\* the message received in this step
Received(type) == sp_count' = sp_count + 1 /\ sp_in'.type = type

\* nothing of recognition was started or fed in this step
RecognitionUntouched ==
    /\ sp_started' = sp_started
    /\ sp_threads' = sp_threads
    /\ sp_pushed' = sp_pushed
    /\ speech_processor'.is_running = speech_processor.is_running

\* C29: a start received before any config succeeded, and an audio message
\* received while recognition is not running, are answered with an error,
\* and neither starts recognition, creates a result-sender thread or pushes
\* audio.
C29_SpeechProtocolOrder ==
    [][/\ (Received("start") /\ ~sp_configured)
          => (sp_reply' = "error" /\ RecognitionUntouched)
       /\ (Received("audio") /\ ~speech_processor.is_running)
          => (sp_reply' = "error" /\ RecognitionUntouched)]_vars

\* C24: the worker loop never ends on its own: after an orchestration run
\* completes, with a single message or with a list of messages as its
\* result, the worker waits for the next inbound message.
C24_WorkerLoopsForever ==
    \A t \in Threads : wpc[t] # "returned"

\* no flush is pending and no callback is inside the debounce
NoFlushPending == timers = <<>> /\ \A t \in Threads : ~InDebounce(t)

\* C25: the code's debounce and the generation-counter debounce, given the
\* same appends and timer expiries, have put the same items on the outbound
\* queue in the same order.
C25_SameAsCounterDebounce ==
    NoFlushPending => outLog = refLog

\* timer i makes its comparison in this step and goes on to flush
Flushes(i) ==
    /\ timers[i].pc = "armed"
    /\ timers[i].left = 0
    /\ timers' = [timers EXCEPT ![i].pc = "put", ![i].ref = timers'[i].ref]

\* C26: a timer that expires after a later message has been appended does
\* not flush: only the timer armed by the last message puts an item.
C26_StaleTimerDoesNothing ==
    [][\A i \in DOMAIN timers :
          (timers[i].gen < Generation /\ Len(timers') = Len(timers))
          => ~Flushes(i)]_vars

\* the data of a successful export is imported through the matching route
\* in this step
Reimported ==
    /\ ImportAnswered
    /\ apiResp.kind = "ok"
    /\ apiResp'.data = apiResp.data
    /\ \E z \in BOOLEAN :
          \/ /\ apiResp.op = RouteOp("history_export", z)
             /\ apiResp'.op = RouteOp("history_import", z)
          \/ /\ apiResp.op = RouteOp("state_export", z)
             /\ apiResp'.op = RouteOp("state_import", z)

\* C27: what an export handler produced is accepted by the matching import
\* handler and leaves the session with the exported transcript and routing
\* state, also when the transcript or the routing state is empty.
C27_ExportIsImportable ==
    [][Reimported
       => /\ apiResp'.kind = "ok"
          /\ chat_history' = chat_history
          /\ runtime_state' = runtime_state]_vars

\* a handoff table given as its list of (source, target) pairs, over the
\* member agents: no pair twice, no agent to itself, only members, and an
\* edge from every specialist back to OrchestratorAgent
WellFormedTable(members, edges) ==
    LET names == {members[i] : i \in DOMAIN members} IN
    /\ \A i, j \in DOMAIN edges : i # j => edges[i] # edges[j]
    /\ \A i \in DOMAIN edges :
          /\ edges[i][1] # edges[i][2]
          /\ edges[i][1] \in names
          /\ edges[i][2] \in names
    /\ \A a \in names \ {"OrchestratorAgent"} :
          \E i \in DOMAIN edges : edges[i] = <<a, "OrchestratorAgent">>

\* C28: the handoff tables of HandsoffAgent and of MultiAgent are well
\* formed, and the agent that is active always has a way on in the table.
C28_HandoffTablesWellFormed ==
    /\ WellFormedTable(Agents, HandoffEdges)
    /\ WellFormedTable(MultiAgentMembers, MultiAgentEdges)
    /\ \E i \in DOMAIN HandoffEdges : HandoffEdges[i][1] = active

\* a specialist was made active and handed back to the orchestrator
C28_Witness ==
    /\ handoffs_done = 2
    /\ active = "OrchestratorAgent"

\* the contents of the user messages of the transcript, in order
UserContents ==
    LET users == SelectSeq(chat_history, LAMBDA m : m.role = "user")
    IN [i \in DOMAIN users |-> users[i].content]

\* C30: whenever no chat() call is between its append to the transcript and
\* its put on queue_input, the user messages of the transcript are, in
\* order, the messages put on queue_input.
C30_TranscriptOrderIsQueueOrder ==
    (\A c \in Callers : pc[c] # "chat_put") => UserContents = inLog

\* C32: a chat() call that raised (for example "Multi-agent is already
\* running." raised by start_agent to the caller that lost the lazy-start
\* race) has left nothing behind: its message was not put on queue_input
\* (chat() appends to chat_history before it puts, so a message that was put
\* was appended to the transcript as well).
C32_FailedChatLeavesSessionUnchanged ==
    \A c \in Callers : pc[c] = "except" => ticket[c] = 0

MultiPending ==
    IF buffered_user_input = NoInput THEN <<>> ELSE <<buffered_user_input>>

\* C34: every message send_message accepted is delivered by
\* _wait_for_user_input exactly once and in send order: what was delivered,
\* followed by what waits in the buffer, is what was sent.
C34_SentMessagesDeliveredInOrder ==
    multi_got \o MultiPending = multi_sent

\* a start_agent / send_message call is made in this step
MultiCalled(op) == multi_calls' = multi_calls + 1 /\ multi_in'.op = op

\* C35: start_agent raises whenever main_tasks is set and send_message
\* raises whenever main_tasks is not set, and a call that raises leaves
\* main_tasks, buffered_user_input and chat_history as they were.
C35_RejectedCallChangesNothing ==
    [][/\ (MultiCalled("start_agent") /\ main_tasks # NoInput)
          => multi_in'.raised
       /\ (MultiCalled("send_message") /\ main_tasks = NoInput)
          => multi_in'.raised
       /\ (multi_calls' = multi_calls + 1 /\ multi_in'.raised)
          => /\ main_tasks' = main_tasks
             /\ buffered_user_input' = buffered_user_input
             /\ multi_history' = multi_history]_vars

\* both kinds of call have been rejected, the second start_agent while a
\* message was waiting in the buffer
C35_Witness ==
    /\ multi_rejected = {"start_agent", "send_message"}
    /\ multi_in = [op |-> "start_agent", raised |-> TRUE]
    /\ buffered_user_input # NoInput
    /\ multi_history # <<>>

\* C36: when several threads call the constructor of a decorated class at
\* the same time, __init__ runs at most once for the class and all the calls
\* of the class return the same instance.
C36_ConcurrentFirstCallsShareInstance ==
    /\ \A cls \in Classes : inits[cls] <= 1
    /\ \A i, j \in DOMAIN made :
          made[i].cls = made[j].cls => made[i].id = made[j].id

\* C37: on one connection at most one result-sender thread is alive at any
\* time, and the results are sent to the client once each and in the order
\* in which they were put on results_queue.
C37_OneSenderResultsInOrder ==
    /\ Cardinality(sp_alive) <= 1
    /\ \A i, j \in DOMAIN sp_sent : i < j => sp_sent[i] < sp_sent[j]

\* the payloads generate_response yielded, keepalives left out
Yielded == SelectSeq(g_yield, LAMBDA ev : ev # KeepaliveEvent)

\* C38: the chunk queue of a finished stream_chat_async run holds the
\* model's chunks in production order, then the 'ERROR: ...' item if the
\* run failed, then the '[[DONE]]' sentinel, which occurs exactly once; and
\* generate_response has yielded those chunks in that order, the error
\* event if the run failed, and exactly one '[[DONE]]' completion event,
\* last.
C38_ChunksInOrderThenOneDone ==
    LET n == Len(f_produced)
        tail == IF f_failed THEN 2 ELSE 1
        chunkEvents == [i \in 1..n |-> Event("chunk", f_produced[i])]
        errorEvents ==
            IF f_failed
            THEN <<Event("error", SubSeq(f_put[n + 1], 7, Len(f_put[n + 1])))>>
            ELSE <<>>
    IN  /\ fpc = "done"
           => /\ Len(f_put) = n + tail
              /\ SubSeq(f_put, 1, n) = f_produced
              /\ f_failed => StartsWith(f_put[n + 1], ErrorPrefix)
              /\ f_put[Len(f_put)] = Sentinel
              /\ Cardinality({i \in DOMAIN f_put : f_put[i] = Sentinel}) = 1
        /\ (fpc = "done" /\ gpc = "done")
           => Yielded = chunkEvents \o errorEvents
                        \o <<Event("chunk", Sentinel)>>

====
